---- MODULE Spec2Model ----
(***************************************************************************)
(* A model of nl2spec's specification front end (src/core/convert and      *)
(* src/core/comparator): the lexical helpers, the formalism detectors, the  *)
(* signature, event, pointcut and FSM extractors and the IR assemblers.     *)
(*                                                                         *)
(* A text is a sequence of tokens.  A token is one lexeme of the source     *)
(* text: a punctuation character, one blank " ", one line break "NL", or a  *)
(* word (a maximal identifier such as "event" or "start").  Two adjacent    *)
(* word tokens read as one longer identifier, as they would in the text.    *)
(* Positions are Python's: 0-based, At(s, i) is s[i], Slice(s, a, b) is     *)
(* s[a:b].  Python's None is the empty tuple None, a present value x is     *)
(* Some(x).  A Python dict is a TLA+ record, a missing key a missing field. *)
(*                                                                         *)
(* Every extractor is a pure function of the text, so each specification    *)
(* below draws the input text in Init and has one action per extractor      *)
(* variant, which applies it and stores what it returns in out.             *)
(***************************************************************************)
EXTENDS Integers, Sequences, FiniteSets, TLC

VARIABLES
    pc,     \* "start" before the call, "done" after it
    text,   \* the input text (or parameter text, or pointcut) of the call
    arg,    \* the call's second argument (open_pos), 0 when it has none
    out     \* what the call returned, with out.fn naming the function called

vars == <<pc, text, arg, out>>

----------------------------------------------------------------------------
(* Python values *)

None == <<>>
Some(x) == <<x>>

At(s, i) == s[i + 1]
Slice(s, a, b) == SubSeq(s, a + 1, b)

Strs(alphabet, n) == UNION {[1..k -> alphabet] : k \in 0..n}

Count(s, c) == Cardinality({i \in 1..Len(s) : s[i] = c})

NoOut == [fn |-> "none"]

----------------------------------------------------------------------------
(* 4.1 Lexical helpers: the balanced scanners *)

\* The scanner's loop with the depth test dropped: it stops at the first
\* closing parenthesis, as a non-greedy regular expression would.
RECURSIVE ere_scan_first_close(_, _, _, _)
ere_scan_first_close(s, open_pos, i, depth) ==
    IF i >= Len(s) THEN [content |-> None, endpos |-> None]
    ELSE IF At(s, i) = ")"
         THEN [content |-> Some(Slice(s, open_pos + 1, i)), endpos |-> Some(i + 1)]
         ELSE ere_scan_first_close(s, open_pos, i + 1, depth)

\* ere.extract_balanced, the while loop: i runs from open_pos, depth counts
\* "(" up and ")" down, and the first ")" that brings depth to 0 ends it.
RECURSIVE ere_scan(_, _, _, _)
ere_scan(s, open_pos, i, depth) ==
    IF i >= Len(s) THEN [content |-> None, endpos |-> None]
    ELSE IF At(s, i) = "("
         THEN ere_scan(s, open_pos, i + 1, depth + 1)
         ELSE IF At(s, i) = ")"
              THEN IF depth - 1 = 0
                   THEN [content |-> Some(Slice(s, open_pos + 1, i)),
                         endpos |-> Some(i + 1)]
                   ELSE ere_scan(s, open_pos, i + 1, depth - 1)
              ELSE ere_scan(s, open_pos, i + 1, depth)

ere_extract_balanced(s, open_pos) ==
    IF At(s, open_pos) # "("
    THEN [content |-> None, endpos |-> None]
    ELSE ere_scan(s, open_pos, open_pos, 0)

\* fsm._extract_balanced_parens: no test of s[open_pos]; returns the index of
\* the closing parenthesis itself.
RECURSIVE fsm_scan(_, _, _, _)
fsm_scan(s, open_pos, i, depth) ==
    IF i >= Len(s) THEN [content |-> None, endpos |-> None]
    ELSE IF At(s, i) = "("
         THEN fsm_scan(s, open_pos, i + 1, depth + 1)
         ELSE IF At(s, i) = ")"
              THEN IF depth - 1 = 0
                   THEN [content |-> Some(Slice(s, open_pos + 1, i)),
                         endpos |-> Some(i)]
                   ELSE fsm_scan(s, open_pos, i + 1, depth - 1)
              ELSE fsm_scan(s, open_pos, i + 1, depth)

fsm_extract_balanced_parens(s, open_pos) == fsm_scan(s, open_pos, open_pos, 0)

\* event._extract_balanced_block: braces; on failure the content is the
\* empty string "" (not None) and the position is None.
RECURSIVE event_scan_block(_, _, _, _)
event_scan_block(s, open_brace_pos, i, depth) ==
    IF i >= Len(s) THEN [content |-> Some(<<>>), endpos |-> None]
    ELSE IF At(s, i) = "{"
         THEN event_scan_block(s, open_brace_pos, i + 1, depth + 1)
         ELSE IF At(s, i) = "}"
              THEN IF depth - 1 = 0
                   THEN [content |-> Some(Slice(s, open_brace_pos + 1, i)),
                         endpos |-> Some(i)]
                   ELSE event_scan_block(s, open_brace_pos, i + 1, depth - 1)
              ELSE event_scan_block(s, open_brace_pos, i + 1, depth)

event_extract_balanced_block(s, open_brace_pos) ==
    event_scan_block(s, open_brace_pos, open_brace_pos, 0)

----------------------------------------------------------------------------
(* The balanced scanners applied to every short text at every position *)

MaxScanLen == 5

ScanAlphabet == {"(", ")", "{", "}", "a"}

InitBalanced ==
    /\ pc = "start"
    /\ text \in Strs(ScanAlphabet, MaxScanLen)
    /\ arg \in 0..(MaxScanLen - 1)
    /\ arg < Len(text)
    /\ out = NoOut

CallEreExtractBalanced ==
    /\ pc = "start"
    /\ pc' = "done"
    /\ out' = [fn |-> "ere.extract_balanced", open |-> "(", close |-> ")"]
                @@ ere_extract_balanced(text, arg)
    /\ UNCHANGED <<text, arg>>

CallFsmExtractBalancedParens ==
    /\ pc = "start"
    /\ pc' = "done"
    /\ out' = [fn |-> "fsm._extract_balanced_parens", open |-> "(", close |-> ")"]
                @@ fsm_extract_balanced_parens(text, arg)
    /\ UNCHANGED <<text, arg>>

CallEventExtractBalancedBlock ==
    /\ pc = "start"
    /\ pc' = "done"
    /\ out' = [fn |-> "event._extract_balanced_block", open |-> "{", close |-> "}"]
                @@ event_extract_balanced_block(text, arg)
    /\ UNCHANGED <<text, arg>>

NextBalanced ==
    \/ CallEreExtractBalanced
    \/ CallFsmExtractBalancedParens
    \/ CallEventExtractBalancedBlock

SpecBalanced == InitBalanced /\ [][NextBalanced]_vars

\* s is balanced in the delimiters op/cl: as many of each, and no prefix
\* closes more than it opened.
Balanced(s, op, cl) ==
    /\ Count(s, op) = Count(s, cl)
    /\ \A k \in 1..Len(s) : Count(SubSeq(s, 1, k), op) >= Count(SubSeq(s, 1, k), cl)

\* C2: extractBalanced round-trips.  Whenever the text is
\* prefix + open + inner + close + suffix with inner balanced and the scanner
\* was called at that opening delimiter, the content returned is exactly
\* inner, for the two parenthesis scanners and for the brace scanner.
C2_RoundTrip ==
    pc = "done" =>
        \A j \in (arg + 1)..(Len(text) - 1) :
            ( /\ At(text, arg) = out.open
              /\ At(text, j) = out.close
              /\ Balanced(Slice(text, arg + 1, j), out.open, out.close) )
            => out.content = Some(Slice(text, arg + 1, j))

\* A call at an opening delimiter whose inner part itself holds a nested pair
\* and which is followed by a non-empty suffix.
C2_Witness ==
    /\ pc = "done"
    /\ At(text, arg) = out.open
    /\ out.content # None
    /\ Count(out.content[1], out.open) > 0
    /\ Count(out.content[1], out.close) > 0
    /\ arg + Len(out.content[1]) + 2 < Len(text)

----------------------------------------------------------------------------
(* Python string methods over token texts *)

\* \s: a blank, a run of four blanks, or a line break.
IsWs(t) == t \in {" ", "    ", "NL"}

Max(a, b) == IF a >= b THEN a ELSE b

\* str.lstrip(), str.rstrip(), str.strip()
RECURSIVE LStrip(_)
LStrip(s) == IF Len(s) > 0 /\ IsWs(s[1]) THEN LStrip(Tail(s)) ELSE s

RECURSIVE RStrip(_)
RStrip(s) ==
    IF Len(s) > 0 /\ IsWs(s[Len(s)]) THEN RStrip(SubSeq(s, 1, Len(s) - 1)) ELSE s

Strip(s) == LStrip(RStrip(s))

\* str.split(sep): the pieces between the occurrences of the token sep, the
\* empty ones included.
RECURSIVE SplitOn(_, _, _, _)
SplitAt(s, sep, i, cur, j) ==
    IF j > Len(s) THEN <<cur \o SubSeq(s, i, Len(s))>>
    ELSE <<cur \o SubSeq(s, i, j - 1)>> \o SplitOn(s, sep, j + 1, <<>>)

SplitOn(s, sep, i, cur) ==
    SplitAt(s, sep, i, cur,
            IF \E j \in i..Len(s) : s[j] = sep
            THEN CHOOSE j \in i..Len(s) : s[j] = sep /\ \A k \in i..(j - 1) : s[k] # sep
            ELSE Len(s) + 1)

\* str.split(): the maximal runs without white space.
RECURSIVE SplitWs(_, _, _)
SplitWs(s, i, cur) ==
    IF i > Len(s) THEN (IF cur = <<>> THEN <<>> ELSE <<cur>>)
    ELSE IF IsWs(s[i])
         THEN (IF cur = <<>> THEN <<>> ELSE <<cur>>) \o SplitWs(s, i + 1, <<>>)
         ELSE SplitWs(s, i + 1, Append(cur, s[i]))

Split(s) == SplitWs(s, 1, <<>>)

\* " ".join(words)
RECURSIVE JoinBlank(_)
JoinBlank(ws) ==
    IF Len(ws) = 0 THEN <<>>
    ELSE IF Len(ws) = 1 THEN ws[1]
    ELSE ws[1] \o <<" ">> \o JoinBlank(Tail(ws))

\* [f(x) for x in xs]
MapStrip(xs) == [k \in 1..Len(xs) |-> Strip(xs[k])]

----------------------------------------------------------------------------
(* Regular-expression primitives over token texts *)

\* str.lower() and re.IGNORECASE, on the words the texts are built from.
Lower(t) ==
    CASE t = "LTL" -> "ltl"
      [] t = "FSM" -> "fsm"
      [] t = "BEFORE" -> "before"
      [] t = "AFTER" -> "after"
      [] t = "START" -> "start"
      [] t = "FAIL" -> "fail"
      [] t = "IO" -> "io"
      [] OTHER -> t

\* ^ under re.MULTILINE: the start of the text or just after a line break.
LineStart(s, p) == p = 0 \/ At(s, p - 1) = "NL"

\* \s* from p: the first position at or after p that holds no white space.
RECURSIVE SkipWs(_, _)
SkipWs(s, p) == IF p < Len(s) /\ IsWs(At(s, p)) THEN SkipWs(s, p + 1) ELSE p

\* The tokens that are not words: white space, punctuation, and "STR", a
\* quoted string literal such as "timeout missing".
Punct ==
    {" ", "    ", "NL", "(", ")", "{", "}", "[", "]", "<", ">", ",", ":", ".", "+",
     "*", "|", "&", "!", "@", "->", "STR", ";", "//", "/*", "*/"}

\* \w+: a word token.
IsWord(t) == t \notin Punct

\* \w+ from p: the position after the maximal run of word tokens at p.
RECURSIVE WordRunEnd(_, _)
WordRunEnd(s, p) ==
    IF p < Len(s) /\ IsWord(At(s, p)) THEN WordRunEnd(s, p + 1) ELSE p

\* \b before position p, in a text that starts at position lo.
WordBoundaryBefore(s, p, lo) == p = lo \/ ~IsWord(At(s, p - 1))

Min(S) == CHOOSE x \in S : \A y \in S : x <= y

\* re.sub(r"\s+", " ", s).strip()
RECURSIVE CollapseWs(_, _)
CollapseWs(s, i) ==
    IF i > Len(s) THEN <<>>
    ELSE IF IsWs(s[i])
         THEN (IF i > 1 /\ IsWs(s[i - 1]) THEN <<>> ELSE <<" ">>) \o CollapseWs(s, i + 1)
         ELSE <<s[i]>> \o CollapseWs(s, i + 1)

normalize(s) == Strip(CollapseWs(s, 1))

----------------------------------------------------------------------------
(* 4.2 Formalism detector *)

\* (?im)^\s*(kw1|kw2)\s*:  searched in s, for the keywords kws.
header_re_search(s, kws) ==
    \E p \in 0..(Len(s) - 1) :
        /\ LineStart(s, p)
        /\ LET q == SkipWs(s, p) IN
           /\ q < Len(s)
           /\ Lower(At(s, q)) \in kws
           /\ LET c == SkipWs(s, q + 1) IN c < Len(s) /\ At(s, c) = ":"

\* (?im)^\s*event\s+
event_re_search(s) ==
    \E p \in 0..(Len(s) - 1) :
        /\ LineStart(s, p)
        /\ LET q == SkipWs(s, p) IN
           /\ q + 1 < Len(s)
           /\ Lower(At(s, q)) = "event"
           /\ IsWs(At(s, q + 1))

detect_formalism(s) ==
    IF header_re_search(s, {"ptltl", "ltl"}) THEN "ltl"
    ELSE IF header_re_search(s, {"fsm"}) THEN "fsm"
    ELSE IF header_re_search(s, {"ere"}) THEN "ere"
    ELSE IF event_re_search(s) THEN "event"
    ELSE "unknown"

\* "kw :" in text.lower(): the keyword, exactly one blank and the colon,
\* anywhere in the text.
lower_contains(s, kw) ==
    \E i \in 1..(Len(s) - 2) :
        Lower(s[i]) = kw /\ s[i + 1] = " " /\ s[i + 2] = ":"

comparator_detect_category(s) ==
    IF lower_contains(s, "fsm") THEN "FSM"
    ELSE IF lower_contains(s, "ere") THEN "ERE"
    ELSE IF lower_contains(s, "ltl") \/ lower_contains(s, "ptltl") THEN "LTL"
    ELSE "EVENT"

----------------------------------------------------------------------------
(* The two detectors applied to every short text *)

MaxDetectLen == 3
MaxDetectLines == 3

DetectAlphabet == {"ltl", "LTL", "ptltl", "fsm", "ere", "event", ":", " ", "NL", "x"}

\* Lines a specification is made of: headers with and without the blank
\* before the colon, indented, in upper case, after other text on the line;
\* event declarations; other text.
DetectLines ==
    { <<"ltl", " ", ":", " ", "x">>, <<"ltl", ":">>, <<"ptltl", " ", ":">>,
      <<"LTL", " ", ":">>, <<"fsm", " ", ":">>, <<" ", "fsm", ":">>,
      <<"ere", " ", ":", " ", "x">>, <<"x", " ", "ere", " ", ":">>,
      <<" ", "event", " ", "x">>, <<"event">>, <<"x">>, <<>> }

\* "\n".join(lines)
RECURSIVE JoinLines(_)
JoinLines(ls) ==
    IF Len(ls) = 0 THEN <<>>
    ELSE IF Len(ls) = 1 THEN ls[1]
    ELSE ls[1] \o <<"NL">> \o JoinLines(Tail(ls))

InitDetect ==
    /\ pc = "start"
    /\ text \in Strs(DetectAlphabet, MaxDetectLen)
                \cup {JoinLines(ls) : ls \in Strs(DetectLines, MaxDetectLines)}
    /\ arg = 0
    /\ out = NoOut

CallDetectFormalism ==
    /\ pc = "start"
    /\ pc' = "done"
    /\ out' = [fn |-> "convert.detect_formalism", formalism |-> detect_formalism(text)]
    /\ UNCHANGED <<text, arg>>

CallDetectCategory ==
    /\ pc = "start"
    /\ pc' = "done"
    /\ out' = [fn |-> "comparator._detect_category",
               formalism |-> comparator_detect_category(text)]
    /\ UNCHANGED <<text, arg>>

NextDetect == CallDetectFormalism \/ CallDetectCategory

SpecDetect == InitDetect /\ [][NextDetect]_vars

\* A header line for one of the keywords kws: the keyword is the first token
\* of its line that is not a blank, and the next token after it that is not
\* white space is the colon.
HasHeader(s, kws) ==
    \E q \in 1..Len(s) :
        /\ Lower(s[q]) \in kws
        /\ \E b \in 0..(q - 1) :
              /\ \A k \in (b + 1)..(q - 1) : s[k] = " "
              /\ (b = 0 \/ s[b] = "NL")
        /\ \E c \in (q + 1)..Len(s) :
              /\ s[c] = ":"
              /\ \A k \in (q + 1)..(c - 1) : IsWs(s[k])

\* A line that starts with `event` followed by white space.
HasEventLine(s) ==
    \E q \in 1..(Len(s) - 1) :
        /\ Lower(s[q]) = "event"
        /\ IsWs(s[q + 1])
        /\ \E b \in 0..(q - 1) :
              /\ \A k \in (b + 1)..(q - 1) : s[k] = " "
              /\ (b = 0 \/ s[b] = "NL")

PriorityFormalism(s) ==
    IF HasHeader(s, {"ltl", "ptltl"}) THEN "ltl"
    ELSE IF HasHeader(s, {"fsm"}) THEN "fsm"
    ELSE IF HasHeader(s, {"ere"}) THEN "ere"
    ELSE IF HasEventLine(s) THEN "event"
    ELSE "unknown"

\* The comparator names its categories in upper case.
CategoryName(f) ==
    CASE f = "LTL" -> "ltl"
      [] f = "FSM" -> "fsm"
      [] f = "ERE" -> "ere"
      [] f = "EVENT" -> "event"
      [] OTHER -> f

\* C1: formalism detection follows the header priority LTL/PTLTL > FSM > ERE >
\* EVENT whatever the order of the headers in the text, and reports unknown
\* for a text with no header and no event line.  Stated for both detectors,
\* the category of the comparator's detector read in lower case.
C1_HeaderPriority ==
    pc = "done" => CategoryName(out.formalism) = PriorityFormalism(text)

\* The same statement for convert.detect_formalism alone, which satisfies it.
DetectFormalismFollowsPriority ==
    (pc = "done" /\ out.fn = "convert.detect_formalism")
        => out.formalism = PriorityFormalism(text)

----------------------------------------------------------------------------
(* 4.1 Lexical helpers: splitting a parameter text on its commas *)

\* fsm._split_commas_balanced: three counters, none falling below zero; the
\* comma is tested after the counters are updated; each piece is stripped.
RECURSIVE fsm_split_loop(_, _, _, _, _, _, _)
fsm_split_loop(s, i, res, cur, angle, paren, bracket) ==
    IF i > Len(s)
    THEN (IF cur # <<>> THEN Append(res, Strip(cur)) ELSE res)
    ELSE LET ch == s[i]
             a == IF ch = "<" THEN angle + 1
                  ELSE IF ch = ">" THEN Max(0, angle - 1) ELSE angle
             p == IF ch = "(" THEN paren + 1
                  ELSE IF ch = ")" THEN Max(0, paren - 1) ELSE paren
             b == IF ch = "[" THEN bracket + 1
                  ELSE IF ch = "]" THEN Max(0, bracket - 1) ELSE bracket
         IN IF ch = "," /\ a = 0 /\ p = 0 /\ b = 0
            THEN fsm_split_loop(s, i + 1, Append(res, Strip(cur)), <<>>, a, p, b)
            ELSE fsm_split_loop(s, i + 1, res, Append(cur, ch), a, p, b)

fsm_split_commas_balanced(s) == fsm_split_loop(s, 1, <<>>, <<>>, 0, 0, 0)

\* ere.split_commas_balanced: three counters that may fall below zero.
RECURSIVE ere_split_loop(_, _, _, _, _, _, _)
ere_split_loop(s, i, res, cur, angle, paren, bracket) ==
    IF i > Len(s)
    THEN (IF cur # <<>> THEN Append(res, Strip(cur)) ELSE res)
    ELSE LET ch == s[i]
             a == IF ch = "<" THEN angle + 1
                  ELSE IF ch = ">" THEN angle - 1 ELSE angle
             p == IF ch = "(" THEN paren + 1
                  ELSE IF ch = ")" THEN paren - 1 ELSE paren
             b == IF ch = "[" THEN bracket + 1
                  ELSE IF ch = "]" THEN bracket - 1 ELSE bracket
         IN IF ch = "," /\ a = 0 /\ p = 0 /\ b = 0
            THEN ere_split_loop(s, i + 1, Append(res, Strip(cur)), <<>>, a, p, b)
            ELSE ere_split_loop(s, i + 1, res, Append(cur, ch), a, p, b)

ere_split_commas_balanced(s) == ere_split_loop(s, 1, <<>>, <<>>, 0, 0, 0)

\* event._split_commas_balanced: one counter for the three kinds of
\* delimiter, which may fall below zero; the pieces are not stripped.
RECURSIVE event_split_loop(_, _, _, _, _)
event_split_loop(s, i, res, cur, depth) ==
    IF i > Len(s)
    THEN (IF cur # <<>> THEN Append(res, cur) ELSE res)
    ELSE LET ch == s[i]
             d == IF ch \in {"<", "(", "["} THEN depth + 1
                  ELSE IF ch \in {">", ")", "]"} THEN depth - 1 ELSE depth
         IN IF ch = "," /\ d = 0
            THEN event_split_loop(s, i + 1, Append(res, cur), <<>>, d)
            ELSE event_split_loop(s, i + 1, res, Append(cur, ch), d)

event_split_commas_balanced(s) == event_split_loop(s, 1, <<>>, <<>>, 0)

\* ltl.parse_parameters, line 71: parts = [p.strip() for p in
\* param_text.split(",")], every comma a split point.
ltl_parameter_parts(param_text) == MapStrip(SplitOn(param_text, ",", 1, <<>>))

\* ltl.parse_parameters, lines 73-79: a part of exactly two words is a
\* parameter, any other part is dropped.
RECURSIVE ltl_two_word_params(_)
ltl_two_word_params(parts) ==
    IF Len(parts) = 0 THEN <<>>
    ELSE LET tokens == Split(parts[1]) IN
         (IF Len(tokens) = 2
          THEN <<[type |-> tokens[1], name |-> tokens[2]]>>
          ELSE <<>>) \o ltl_two_word_params(Tail(parts))

ltl_parse_parameters(param_text) ==
    IF Strip(param_text) = <<>> THEN <<>>
    ELSE ltl_two_word_params(ltl_parameter_parts(param_text))

----------------------------------------------------------------------------
(* The comma splitters applied to every short parameter text *)

MaxSplitLen == 4

SplitAlphabet == {"<", ">", "(", ")", "[", "]", ",", " ", "a"}

\* "Map<String, Integer> m, int x"
MapExample ==
    <<"Map", "<", "String", ",", " ", "Integer", ">", " ", "m", ",", " ",
      "int", " ", "x">>

InitSplit ==
    /\ pc = "start"
    /\ text \in Strs(SplitAlphabet, MaxSplitLen) \cup {MapExample}
    /\ arg = 0
    /\ out = NoOut

CallFsmSplitCommasBalanced ==
    /\ pc = "start"
    /\ pc' = "done"
    /\ out' = [fn |-> "fsm._split_commas_balanced",
               segments |-> fsm_split_commas_balanced(text)]
    /\ UNCHANGED <<text, arg>>

CallEventSplitCommasBalanced ==
    /\ pc = "start"
    /\ pc' = "done"
    /\ out' = [fn |-> "event._split_commas_balanced",
               segments |-> event_split_commas_balanced(text)]
    /\ UNCHANGED <<text, arg>>

\* out.segments is the function's local list `parts`, empty when the early
\* return at line 68 is taken.
CallLtlParseParameters ==
    /\ pc = "start"
    /\ pc' = "done"
    /\ out' = [fn |-> "ltl.parse_parameters",
               segments |-> IF Strip(text) = <<>> THEN <<>>
                            ELSE ltl_parameter_parts(text),
               params |-> ltl_parse_parameters(text)]
    /\ UNCHANGED <<text, arg>>

NextSplit ==
    \/ CallFsmSplitCommasBalanced
    \/ CallEventSplitCommasBalanced
    \/ CallLtlParseParameters

SpecSplit == InitSplit /\ [][NextSplit]_vars

\* The depth of the pair op/cl after the first k tokens of s.
DepthAt(s, k, op, cl) == Count(SubSeq(s, 1, k), op) - Count(SubSeq(s, 1, k), cl)

\* No closing delimiter without its opening one before it.
WellNested(s) ==
    \A k \in 1..Len(s) :
        /\ DepthAt(s, k, "<", ">") >= 0
        /\ DepthAt(s, k, "(", ")") >= 0
        /\ DepthAt(s, k, "[", "]") >= 0

\* The commas at which all three depths are zero, in order.
TopLevelCommas(s) ==
    {i \in 1..Len(s) :
        /\ s[i] = ","
        /\ DepthAt(s, i, "<", ">") = 0
        /\ DepthAt(s, i, "(", ")") = 0
        /\ DepthAt(s, i, "[", "]") = 0}

\* The k-th smallest element of the set of numbers S.
Nth(S, k) == CHOOSE x \in S : Cardinality({y \in S : y < x}) = k - 1

\* The text cut at its top-level commas, each piece trimmed.
TopLevelSegments(s) ==
    LET cuts == TopLevelCommas(s)
        n == Cardinality(cuts)
        from(k) == IF k = 1 THEN 1 ELSE Nth(cuts, k - 1) + 1
        to(k) == IF k = n + 1 THEN Len(s) ELSE Nth(cuts, k) - 1
    IN [k \in 1..(n + 1) |-> Strip(SubSeq(s, from(k), to(k)))]

\* C3: a parameter text is split at exactly the commas at which the depths of
\* <>, () and [] are all zero, and the pieces are trimmed, by every splitter
\* (the pieces are compared trimmed, as every caller trims them before use).
\* Stated for the texts that say something, are well nested and do not end
\* in a comma.
C3_SplitAtTopLevelCommas ==
    ( /\ pc = "done"
      /\ Strip(text) # <<>>
      /\ WellNested(text)
      /\ text[Len(text)] # "," )
    => MapStrip(out.segments) = TopLevelSegments(text)

\* The same statement for the two balanced splitters alone, which satisfy it.
BalancedSplittersSplitAtTopLevelCommas ==
    out.fn \in {"fsm._split_commas_balanced", "event._split_commas_balanced"}
        => C3_SplitAtTopLevelCommas

----------------------------------------------------------------------------
(* 4.5 Pointcut parser: the call joinpoints *)

\* raw.find("call(", i) + 4: the position of the "(" of the first `call(` at
\* or after i, -1 when there is none.
ere_find_call_paren(raw, i) ==
    LET hits == {k \in i..(Len(raw) - 2) : At(raw, k) = "call" /\ At(raw, k + 1) = "("}
    IN IF hits = {} THEN -1 ELSE Min(hits) + 1

\* ere.parse_pointcut, the while loop: `if content:` is false for None and
\* for the empty string, and either one ends the scan.
RECURSIVE ere_pointcut_loop(_, _, _)
ere_pointcut_loop(raw, i, calls) ==
    LET open == ere_find_call_paren(raw, i) IN
    IF open = -1 THEN calls
    ELSE LET res == ere_extract_balanced(raw, open) IN
         IF res.content # None /\ res.content[1] # <<>>
         THEN ere_pointcut_loop(raw, res.endpos[1], Append(calls, Strip(res.content[1])))
         ELSE calls

ere_parse_pointcut(raw) ==
    [raw |-> normalize(raw), calls |-> ere_pointcut_loop(raw, 0, <<>>)]

\* re.search(r"\bcall\s*\(", text[i:]): the position of the "(" of the first
\* match at or after i, -1 when there is none.
ltl_call_search_paren(text_, i) ==
    LET hits == {k \in i..(Len(text_) - 2) :
                    /\ At(text_, k) = "call"
                    /\ WordBoundaryBefore(text_, k, i)
                    /\ SkipWs(text_, k + 1) < Len(text_)
                    /\ At(text_, SkipWs(text_, k + 1)) = "("}
    IN IF hits = {} THEN -1 ELSE SkipWs(text_, Min(hits) + 1)

\* ltl._extract_balanced_call_bodies, the inner while loop: the index of the
\* ")" that closes the "(" at j, -1 when the text ends first.
RECURSIVE ltl_scan_close(_, _, _)
ltl_scan_close(text_, k, depth) ==
    IF k >= Len(text_) THEN -1
    ELSE IF At(text_, k) = "(" THEN ltl_scan_close(text_, k + 1, depth + 1)
    ELSE IF At(text_, k) = ")"
         THEN (IF depth - 1 = 0 THEN k ELSE ltl_scan_close(text_, k + 1, depth - 1))
         ELSE ltl_scan_close(text_, k + 1, depth)

\* ltl._extract_balanced_call_bodies, the outer while loop.
RECURSIVE ltl_call_bodies_loop(_, _, _)
ltl_call_bodies_loop(text_, i, res) ==
    IF i >= Len(text_) THEN res
    ELSE LET j == ltl_call_search_paren(text_, i) IN
         IF j = -1 THEN res
         ELSE LET k == ltl_scan_close(text_, j, 0) IN
              IF k = -1 THEN res
              ELSE ltl_call_bodies_loop(text_, k + 1, Append(res, Slice(text_, j + 1, k)))

ltl_extract_balanced_call_bodies(text_) == ltl_call_bodies_loop(text_, 0, <<>>)

\* re.search(r"\.(\w+\(\.\.\))", body): "." , a word, "(..)".
ltl_extract_simple_method(body) ==
    LET hits == {d \in 0..(Len(body) - 6) :
                    /\ At(body, d) = "."
                    /\ WordRunEnd(body, d + 1) > d + 1
                    /\ WordRunEnd(body, d + 1) + 3 < Len(body)
                    /\ Slice(body, WordRunEnd(body, d + 1), WordRunEnd(body, d + 1) + 4)
                           = <<"(", ".", ".", ")">>}
    IN IF hits = {} THEN <<>>
       ELSE Slice(body, Min(hits) + 1, WordRunEnd(body, Min(hits) + 1) + 4)

\* re.search(r"\b([A-Za-z_]\w*\+?)\s*\.\s*\w+\s*\(", body): a word, an
\* optional "+", then "." word "(" with optional white space between.
ltl_declaring_type_end(body, b) ==
    LET e == WordRunEnd(body, b)
        e2 == IF e < Len(body) /\ At(body, e) = "+" THEN e + 1 ELSE e
        d == SkipWs(body, e2)
        m == IF d < Len(body) THEN SkipWs(body, d + 1) ELSE Len(body)
        me == WordRunEnd(body, m)
        o == SkipWs(body, me)
    IN IF /\ e > b
          /\ d < Len(body) /\ At(body, d) = "."
          /\ me > m
          /\ o < Len(body) /\ At(body, o) = "("
       THEN e2 ELSE -1

ltl_extract_declaring_type(body) ==
    LET hits == {b \in 0..(Len(body) - 1) :
                    /\ IsWord(At(body, b))
                    /\ WordBoundaryBefore(body, b, 0)
                    /\ ltl_declaring_type_end(body, b) # -1}
    IN IF hits = {} THEN <<>>
       ELSE Slice(body, Min(hits), ltl_declaring_type_end(body, Min(hits)))

ltl_extract_calls(text_) ==
    LET bodies == ltl_extract_balanced_call_bodies(text_) IN
    [n \in 1..Len(bodies) |->
        [kind |-> "call",
         pattern |-> normalize(bodies[n]),
         simple |-> ltl_extract_simple_method(normalize(bodies[n])),
         declaring_type |-> ltl_extract_declaring_type(normalize(bodies[n]))]]

----------------------------------------------------------------------------
(* The pointcut parsers applied to short pointcuts *)

MaxPointcutLen == 4
MaxPointcutParts == 3

PointcutAlphabet == {"call", "(", ")", " ", "a", "."}

\* Pieces a pointcut is made of: call(..) with a nested parenthesised part,
\* with a plain pattern, empty, with blanks, unclosed; `acall(`, `call (`;
\* a target binding; an operator.
PointcutParts ==
    { <<"call", "(", "*", " ", "A", "+", ".", "m", "(", ".", ".", ")", ")">>,
      <<"call", "(", "a", ")">>,
      <<"call", "(", ")">>,
      <<"call", "(", " ", "a", " ", " ", "b", " ", ")">>,
      <<"call", "(", "a">>,
      <<"a", "call", "(", "a", ")">>,
      <<"call", " ", "(", "a", ".", "m", "(", ")", ")">>,
      <<"target", "(", "a", ")">>,
      <<" ", "&", "&", " ">> }

RECURSIVE Concat(_)
Concat(ps) == IF Len(ps) = 0 THEN <<>> ELSE ps[1] \o Concat(Tail(ps))

InitPointcut ==
    /\ pc = "start"
    /\ text \in Strs(PointcutAlphabet, MaxPointcutLen)
                \cup {Concat(ps) : ps \in Strs(PointcutParts, MaxPointcutParts)}
    /\ arg = 0
    /\ out = NoOut

CallEreParsePointcut ==
    /\ pc = "start"
    /\ pc' = "done"
    /\ out' = [fn |-> "ere.parse_pointcut",
               result |-> ere_parse_pointcut(text),
               patterns |-> ere_parse_pointcut(text).calls]
    /\ UNCHANGED <<text, arg>>

CallLtlExtractCalls ==
    /\ pc = "start"
    /\ pc' = "done"
    /\ out' = [fn |-> "ltl.extract_calls",
               result |-> ltl_extract_calls(text),
               patterns |-> [n \in 1..Len(ltl_extract_calls(text)) |->
                                ltl_extract_calls(text)[n].pattern]]
    /\ UNCHANGED <<text, arg>>

NextPointcut == CallEreParsePointcut \/ CallLtlExtractCalls

SpecPointcut == InitPointcut /\ [][NextPointcut]_vars

\* The position of the ")" that matches the "(" at position o.
MatchingClose(s, o) ==
    CHOOSE j \in (o + 1)..(Len(s) - 1) :
        At(s, j) = ")" /\ Balanced(Slice(s, o + 1, j), "(", ")")

\* The positions of the `call` keywords of the text.
CallKeywords(s) == {k \in 0..(Len(s) - 1) : At(s, k) = "call"}

\* A pointcut whose parentheses are balanced and in which every `call` is a
\* word of its own directly followed by its "(".
CleanPointcut(s) ==
    /\ Balanced(s, "(", ")")
    /\ \A k \in CallKeywords(s) :
          /\ k + 1 < Len(s) /\ At(s, k + 1) = "("
          /\ (k = 0 \/ ~IsWord(At(s, k - 1)))

\* The call(...) occurrences that lie inside no other one.
TopLevelCalls(s) ==
    {k \in CallKeywords(s) :
        \A k2 \in CallKeywords(s) : ~(k2 < k /\ k < MatchingClose(s, k2 + 1))}

\* The text between `call(` and its matching ")", for each top-level
\* occurrence in textual order.
CallContents(s) ==
    LET ks == TopLevelCalls(s) IN
    [n \in 1..Cardinality(ks) |->
        Slice(s, Nth(ks, n) + 2, MatchingClose(s, Nth(ks, n) + 1))]

\* C8: parsing a pointcut yields one call joinpoint per call(...) occurrence,
\* in textual order, each with the complete text between `call(` and its
\* matching ")" as its pattern (white space normalised), and no later
\* occurrence is lost because of an earlier one.  Stated for clean pointcuts.
C8_OneJoinpointPerCall ==
    (pc = "done" /\ CleanPointcut(text))
        => /\ Len(out.patterns) = Len(CallContents(text))
           /\ \A n \in 1..Len(out.patterns) :
                 normalize(out.patterns[n]) = normalize(CallContents(text)[n])

\* The same statement for ltl.extract_calls alone, which satisfies it.
LtlExtractCallsOneJoinpointPerCall ==
    out.fn = "ltl.extract_calls" => C8_OneJoinpointPerCall

----------------------------------------------------------------------------
(* 4.1 and 4.3: splitTypeName and the signature extractors *)

\* re.sub(r"@\w+(\([^)]*\))?\s*", "", param): an annotation is "@", a word,
\* an optional parenthesised part up to the first ")", and the white space
\* after it.
RECURSIVE remove_annotations(_, _)
remove_annotations(s, i) ==
    IF i >= Len(s) THEN <<>>
    ELSE IF At(s, i) = "@" /\ WordRunEnd(s, i + 1) > i + 1
         THEN LET e == WordRunEnd(s, i + 1)
                  closes == {c \in (e + 1)..(Len(s) - 1) : At(s, c) = ")"}
                  g == IF e < Len(s) /\ At(s, e) = "(" /\ closes # {}
                       THEN Min(closes) + 1 ELSE e
              IN remove_annotations(s, SkipWs(s, g))
         ELSE <<At(s, i)>> \o remove_annotations(s, i + 1)

\* re.sub(r"^\s*final\s+", "", param)
remove_final(s) ==
    LET q == SkipWs(s, 0) IN
    IF q + 1 < Len(s) /\ At(s, q) = "final" /\ IsWs(At(s, q + 1))
    THEN Slice(s, SkipWs(s, q + 1), Len(s))
    ELSE s

\* tokens[-1] and " ".join(tokens[:-1]); ("", "") with fewer than two tokens.
type_and_name(tokens) ==
    IF Len(tokens) < 2 THEN [type |-> <<>>, name |-> <<>>]
    ELSE [type |-> Strip(JoinBlank(SubSeq(tokens, 1, Len(tokens) - 1))),
          name |-> tokens[Len(tokens)]]

fsm_split_type_name(param) ==
    type_and_name(Split(Strip(remove_final(Strip(remove_annotations(param, 0))))))

ere_split_type_name(param) ==
    type_and_name(Split(remove_final(remove_annotations(param, 0))))

\* The for loops of the signature and parameter parsers: a part whose type and
\* name are both non-empty is a parameter, any other part is dropped.
RECURSIVE fsm_params_of(_)
fsm_params_of(parts) ==
    IF Len(parts) = 0 THEN <<>>
    ELSE LET tn == fsm_split_type_name(Strip(parts[1])) IN
         (IF tn.type # <<>> /\ tn.name # <<>> THEN <<tn>> ELSE <<>>)
             \o fsm_params_of(Tail(parts))

RECURSIVE ere_params_of(_)
ere_params_of(parts) ==
    IF Len(parts) = 0 THEN <<>>
    ELSE LET tn == ere_split_type_name(Strip(parts[1])) IN
         (IF tn.type # <<>> /\ tn.name # <<>> THEN <<tn>> ELSE <<>>)
             \o ere_params_of(Tail(parts))

\* (?m)^\s*([A-Za-z_]\w*)\s*\(  at the line start p: the positions of the
\* name, of its end and of the "(", or NoMatch.
NoMatch == [found |-> FALSE]

header_at(s, p) ==
    LET q == SkipWs(s, p)
        e == WordRunEnd(s, q)
        o == SkipWs(s, e)
    IN IF LineStart(s, p) /\ e > q /\ o < Len(s) /\ At(s, o) = "("
       THEN [found |-> TRUE, name |-> Slice(s, q, e), open |-> o]
       ELSE NoMatch

\* _PROP_HEADER_RE.search(text), _HEADER_RE.search(text): the leftmost match.
header_search(s) ==
    LET hits == {p \in 0..(Len(s) - 1) : header_at(s, p).found}
    IN IF hits = {} THEN NoMatch ELSE header_at(s, Min(hits))

fsm_extract_signature(s) ==
    LET m == header_search(s) IN
    IF ~m.found THEN [parameters |-> <<>>]
    ELSE LET params_raw == fsm_extract_balanced_parens(s, m.open).content IN
         IF params_raw = None THEN [parameters |-> <<>>]
         ELSE IF Strip(params_raw[1]) = <<>>
              THEN [name |-> m.name, parameters |-> <<>>]
              ELSE [name |-> m.name,
                    parameters |->
                        fsm_params_of(fsm_split_commas_balanced(Strip(params_raw[1])))]

ere_extract_signature(s) ==
    LET m == header_search(s) IN
    IF ~m.found THEN [parameters |-> <<>>]
    ELSE LET params_raw == ere_extract_balanced(s, m.open).content IN
         IF params_raw = None \/ params_raw = Some(<<>>)
         THEN [name |-> m.name, parameters |-> <<>>]
         ELSE [name |-> m.name,
               parameters |-> ere_params_of(ere_split_commas_balanced(params_raw[1]))]

\* ^\s*(\w+)\s*\((.*?)\)\s*\{  under re.MULTILINE at the line start p: the
\* parameter text is the shortest one, without a line break, whose ")" is
\* followed by "{".
ltl_header_at(s, p) ==
    LET m == header_at(s, p)
        closes == IF ~m.found THEN {}
                  ELSE {c \in (m.open + 1)..(Len(s) - 1) :
                           /\ At(s, c) = ")"
                           /\ \A k \in (m.open + 1)..(c - 1) : At(s, k) # "NL"
                           /\ SkipWs(s, c + 1) < Len(s)
                           /\ At(s, SkipWs(s, c + 1)) = "{"}
    IN IF closes = {} THEN NoMatch
       ELSE [found |-> TRUE, name |-> m.name,
             params_raw |-> Slice(s, m.open + 1, Min(closes))]

ltl_header_search(s) ==
    LET hits == {p \in 0..(Len(s) - 1) : ltl_header_at(s, p).found}
    IN IF hits = {} THEN NoMatch ELSE ltl_header_at(s, Min(hits))

\* ltl.extract_signature: the result never has a name.
ltl_extract_signature(s) ==
    LET m == ltl_header_search(s) IN
    IF ~m.found THEN [parameters |-> <<>>]
    ELSE IF Strip(m.params_raw) = <<>> THEN [parameters |-> <<>>]
    ELSE [parameters |->
             ltl_two_word_params(SplitOn(Strip(m.params_raw), ",", 1, <<>>))]

----------------------------------------------------------------------------
(* The signature extractors applied to short texts and to header lines *)

MaxSigLen == 4
MaxSigLines == 2

SigAlphabet == {"Foo", "(", ")", " ", "NL", "{", ","}

SigLines ==
    { <<"Foo", "(", "int", " ", "x", ")", " ", "{">>,
      <<"Foo", "(", ")", " ", "{">>,
      <<"Foo", "(", "Map", "<", "K", ",", " ", "V", ">", " ", "m", ",", " ",
        "final", " ", "int", " ", "x", ")", " ", "{">>,
      <<"Foo", "(", "@", "A", "(", "b", ")", " ", "T", " ", "y", ",", " ", "z",
        ")", " ", "{">>,
      <<"Foo", "(", "int", " ", "x">>,
      <<" ", "Foo", " ", "(", "int", " ", "x", ",", "T", " ", "y", ")">>,
      <<"event", " ", "e", " ", "before", "(", "int", " ", "x", ")", " ", ":",
        " ", "y", " ", "{">>,
      <<"nothing", " ", "here">>,
      <<"}">>,
      <<>> }

InitSignature ==
    /\ pc = "start"
    /\ text \in Strs(SigAlphabet, MaxSigLen)
                \cup {JoinLines(ls) : ls \in Strs(SigLines, MaxSigLines)}
    /\ arg = 0
    /\ out = NoOut

CallFsmExtractSignature ==
    /\ pc = "start"
    /\ pc' = "done"
    /\ out' = [fn |-> "fsm.extract_signature", result |-> fsm_extract_signature(text)]
    /\ UNCHANGED <<text, arg>>

CallEreExtractSignature ==
    /\ pc = "start"
    /\ pc' = "done"
    /\ out' = [fn |-> "ere.extract_signature", result |-> ere_extract_signature(text)]
    /\ UNCHANGED <<text, arg>>

CallLtlExtractSignature ==
    /\ pc = "start"
    /\ pc' = "done"
    /\ out' = [fn |-> "ltl.extract_signature", result |-> ltl_extract_signature(text)]
    /\ UNCHANGED <<text, arg>>

NextSignature ==
    \/ CallFsmExtractSignature
    \/ CallEreExtractSignature
    \/ CallLtlExtractSignature

SpecSignature == InitSignature /\ [][NextSignature]_vars

\* C4: every signature extractor returns a result that has both a name and a
\* parameters entry, whatever the text; without a header the parameters are
\* empty.
C4_SignatureHasNameAndParameters ==
    pc = "done" =>
        /\ {"name", "parameters"} \subseteq DOMAIN out.result
        /\ (~header_search(text).found => out.result.parameters = <<>>)

\* What the three extractors do guarantee: a parameters entry, empty when the
\* text has no header, and, in the FSM and ERE extractors, the header's name
\* whenever the result has a name.
SignatureAlwaysHasParameters ==
    pc = "done" =>
        /\ "parameters" \in DOMAIN out.result
        /\ (~header_search(text).found => out.result = [parameters |-> <<>>])
        /\ ("name" \in DOMAIN out.result =>
                out.result.name = header_search(text).name)

----------------------------------------------------------------------------
(* 4.2: the event extractors *)

\* A keyword under re.IGNORECASE (ci) or as written.
Kw(t, ci) == IF ci THEN Lower(t) ELSE t

\* event\s+(\w+)\s+(before|after)\(  with the `event` keyword at position p.
event_head_at(s, p, ci) ==
    LET q == SkipWs(s, p + 1)
        e == WordRunEnd(s, q)
        t == SkipWs(s, e)
    IN IF /\ p < Len(s) /\ Kw(At(s, p), ci) = "event"
          /\ q > p + 1 /\ e > q /\ t > e /\ t + 1 < Len(s)
          /\ Kw(At(s, t), ci) \in {"before", "after"}
          /\ At(s, t + 1) = "("
       THEN [found |-> TRUE, name |-> Slice(s, q, e), timing |-> At(s, t),
             open |-> t + 1]
       ELSE NoMatch

\* \)\s*(?:returning\((.*?)\))?\s*:  after the ")" at position c: every way
\* to reach the ":", as the position of the returning group's ")" (-1 when
\* the group is absent) and the position of the ":".
header_tails(s, c, ci) ==
    LET a == SkipWs(s, c + 1) IN
    IF a >= Len(s) THEN {}
    ELSE IF At(s, a) = ":" THEN {[ropen |-> -1, rclose |-> -1, colon |-> a]}
    ELSE IF Kw(At(s, a), ci) = "returning" /\ a + 1 < Len(s) /\ At(s, a + 1) = "("
         THEN {[ropen |-> a + 1, rclose |-> k, colon |-> SkipWs(s, k + 1)] :
                  k \in {k \in (a + 2)..(Len(s) - 1) :
                            /\ At(s, k) = ")"
                            /\ SkipWs(s, k + 1) < Len(s)
                            /\ At(s, SkipWs(s, k + 1)) = ":"}}
         ELSE {}

\* What follows the ":" at position colon, per extractor:
\*   fsm    \s*(.*?)\s*\{(.*?)\}    the first "{" and the first "}" after it
\*   ere    \s*(.*?)\{(.*?)\}       the same
\*   ltl    \s*(.*?)\s*\{\s*\}      the first "{" that is followed by "}"
\*   event  nothing: the header pattern ends at the ":"
event_tail_at(s, colon, v) ==
    LET ps == SkipWs(s, colon + 1)
        opens == {b \in ps..(Len(s) - 1) :
                     /\ At(s, b) = "{"
                     /\ v = "ltl" => /\ SkipWs(s, b + 1) < Len(s)
                                     /\ At(s, SkipWs(s, b + 1)) = "}"}
        b == Min(opens)
        closes == {e \in (b + 1)..(Len(s) - 1) : At(s, e) = "}"}
    IN IF v = "event"
       THEN [found |-> TRUE, pointcut |-> <<>>, body |-> <<>>, endpos |-> colon + 1]
       ELSE IF opens = {} \/ closes = {} THEN NoMatch
       ELSE [found |-> TRUE,
             pointcut |-> IF v = "ere" THEN Slice(s, ps, b)
                          ELSE RStrip(Slice(s, ps, b)),
             body |-> Slice(s, b + 1, Min(closes)),
             endpos |-> Min(closes) + 1]

\* The whole pattern at the start position p.  The fsm and ere patterns are
\* (?is) and begin with \b(creation\s+)?; the event pattern begins with \b;
\* the ltl pattern with neither.  Both (.*?) of the header take the first ")"
\* from which the rest of the pattern still matches.  The match is put
\* together in stages: the head, the ")" of the parameters, the tail.
GoodTails(s, c, v) ==
    {t \in header_tails(s, c, v \in {"fsm", "ere"}) :
        event_tail_at(s, t.colon, v).found}

FirstTail(tails) == CHOOSE t \in tails : \A u \in tails : t.rclose <= u.rclose

event_match_groups(s, creation, head, c1, t, tail) ==
    [found |-> TRUE, creation_kw |-> creation, name |-> head.name,
     timing |-> head.timing, params |-> Slice(s, head.open + 1, c1),
     returning |-> IF t.rclose = -1 THEN <<>>
                   ELSE Slice(s, t.ropen + 1, t.rclose),
     pointcut |-> tail.pointcut, body |-> tail.body, endpos |-> tail.endpos]

event_match_tail(s, v, creation, head, c1, t) ==
    event_match_groups(s, creation, head, c1, t, event_tail_at(s, t.colon, v))

event_match_close(s, v, creation, head, c1) ==
    event_match_tail(s, v, creation, head, c1, FirstTail(GoodTails(s, c1, v)))

event_match_params(s, v, creation, head, cands) ==
    IF cands = {} THEN NoMatch
    ELSE event_match_close(s, v, creation, head, Min(cands))

event_match_head(s, v, creation, head) ==
    IF ~head.found THEN NoMatch
    ELSE event_match_params(s, v, creation, head,
             {c \in (head.open + 1)..(Len(s) - 1) :
                 At(s, c) = ")" /\ GoodTails(s, c, v) # {}})

event_match_creation(s, p, v, creation) ==
    event_match_head(s, v, creation,
        event_head_at(s, IF creation THEN SkipWs(s, p + 1) ELSE p,
                      v \in {"fsm", "ere"}))

event_match_at(s, p, v) ==
    IF p < Len(s) /\ (v # "ltl" => WordBoundaryBefore(s, p, 0))
    THEN event_match_creation(s, p, v,
             /\ v \in {"fsm", "ere"} /\ p + 1 < Len(s)
             /\ Lower(At(s, p)) = "creation" /\ IsWs(At(s, p + 1)))
    ELSE NoMatch

\* findall / finditer: the leftmost match from pos on, then on from its end.
RECURSIVE event_matches(_, _, _)
event_matches_after(s, v, m) == <<m>> \o event_matches(s, m.endpos, v)

event_matches_at(s, v, hits) ==
    IF hits = {} THEN <<>>
    ELSE event_matches_after(s, v, event_match_at(s, Min(hits), v))

event_matches(s, pos, v) ==
    event_matches_at(s, v, {p \in pos..(Len(s) - 1) : event_match_at(s, p, v).found})

\* [ln for ln in body.splitlines() if ln.strip()]
RECURSIVE NonBlank(_)
NonBlank(ls) ==
    IF Len(ls) = 0 THEN <<>>
    ELSE (IF Strip(ls[1]) = <<>> THEN <<>> ELSE <<ls[1]>>) \o NonBlank(Tail(ls))

SplitLines(s) == SplitOn(s, "NL", 1, <<>>)

MapRStrip(xs) == [k \in 1..Len(xs) |-> RStrip(xs[k])]

fsm_parse_parameters(param_text) ==
    IF Strip(param_text) = <<>> THEN <<>>
    ELSE fsm_params_of(fsm_split_commas_balanced(param_text))

ere_parse_parameters(param_text) ==
    IF Strip(param_text) = <<>> THEN <<>>
    ELSE ere_params_of(ere_split_commas_balanced(param_text))

\* event.parse_parameters: a part of two or more words is a parameter.
RECURSIVE event_params_of(_)
event_params_of(parts) ==
    IF Len(parts) = 0 THEN <<>>
    ELSE LET tn == type_and_name(Split(Strip(parts[1]))) IN
         (IF tn.name # <<>> THEN <<tn>> ELSE <<>>) \o event_params_of(Tail(parts))

event_parse_parameters(param_text) ==
    IF Strip(param_text) = <<>> THEN <<>>
    ELSE event_params_of(event_split_commas_balanced(param_text))

\* The optional "returning" entry of an event.
Returning(tn, present) ==
    IF present THEN [returning |-> tn] ELSE <<>>

fsm_event_with(m, tn) ==
    [kind |-> IF m.creation_kw THEN "creation" ELSE "event",
     name |-> Strip(m.name),
     timing |-> m.timing,
     parameters |-> fsm_parse_parameters(m.params),
     pointcut_raw |-> normalize(Strip(m.pointcut)),
     body |-> [raw_lines |-> MapRStrip(NonBlank(SplitLines(m.body)))]]
    @@ Returning(tn, Strip(m.returning) # <<>> /\ tn.type # <<>> /\ tn.name # <<>>)

fsm_event(m) == fsm_event_with(m, fsm_split_type_name(Strip(m.returning)))

ere_event_with(m, tn, body_lines) ==
    [kind |-> IF m.creation_kw THEN "creation" ELSE "event",
     name |-> Strip(m.name),
     timing |-> m.timing,
     parameters |-> ere_parse_parameters(m.params),
     pointcut |-> ere_parse_pointcut(Strip(m.pointcut))]
    @@ Returning(tn, m.returning # <<>> /\ tn.type # <<>> /\ tn.name # <<>>)
    @@ (IF body_lines # <<>> THEN [body |-> [raw_lines |-> body_lines]] ELSE <<>>)

ere_event(m) ==
    ere_event_with(m, ere_split_type_name(Strip(m.returning)),
                   MapStrip(NonBlank(SplitLines(m.body))))

RECURSIVE MapEvents(_, _)
MapEvents(ms, v) ==
    IF Len(ms) = 0 THEN <<>>
    ELSE <<IF v = "fsm" THEN fsm_event(ms[1]) ELSE ere_event(ms[1])>>
             \o MapEvents(Tail(ms), v)

fsm_extract_events(s) == MapEvents(event_matches(s, 0, "fsm"), "fsm")

ere_extract_events(s) == MapEvents(event_matches(s, 0, "ere"), "ere")

\* re.findall(r"target\((\w+)\)", text)
RECURSIVE ltl_targets_from(_, _)
ltl_targets_from(s, pos) ==
    LET hits == {i \in pos..(Len(s) - 4) :
                    /\ At(s, i) = "target" /\ At(s, i + 1) = "("
                    /\ WordRunEnd(s, i + 2) > i + 2
                    /\ WordRunEnd(s, i + 2) < Len(s)
                    /\ At(s, WordRunEnd(s, i + 2)) = ")"}
        i == Min(hits)
        e == WordRunEnd(s, i + 2)
    IN IF hits = {} THEN <<>>
       ELSE <<[type |-> "target", variable |-> Slice(s, i + 2, e)]>>
                \o ltl_targets_from(s, e + 1)

ltl_extract_targets(s) == ltl_targets_from(s, 0)

\* re.findall(r"!cflow\((.*?)\)", text, re.DOTALL)
RECURSIVE ltl_cflow_from(_, _)
ltl_cflow_from(s, pos) ==
    LET hits == {i \in pos..(Len(s) - 4) :
                    /\ At(s, i) = "!" /\ At(s, i + 1) = "cflow"
                    /\ At(s, i + 2) = "("
                    /\ \E k \in (i + 3)..(Len(s) - 1) : At(s, k) = ")"}
        i == Min(hits)
        k == Min({k \in (i + 3)..(Len(s) - 1) : At(s, k) = ")"})
    IN IF hits = {} THEN <<>>
       ELSE <<[type |-> "cflow", pattern |-> normalize(Slice(s, i + 3, k))]>>
                \o ltl_cflow_from(s, k + 1)

ltl_extract_cflow(s) == ltl_cflow_from(s, 0)

ltl_parse_pointcut(s) ==
    [raw |-> normalize(s),
     joinpoints |-> ltl_extract_calls(s),
     bindings |-> ltl_extract_targets(s),
     exclusions |-> ltl_extract_cflow(s)]

ltl_event(m) ==
    LET tokens == Split(Strip(m.returning)) IN
    [name |-> Strip(m.name),
     timing |-> m.timing,
     parameters |-> ltl_parse_parameters(m.params),
     pointcut |-> ltl_parse_pointcut(Strip(m.pointcut))]
    @@ (IF m.returning # <<>> /\ Len(tokens) = 2
        THEN [returning |-> [type |-> tokens[1], name |-> tokens[2]]]
        ELSE <<>>)

ltl_extract_events(s) ==
    LET ms == event_matches(s, 0, "ltl") IN
    [k \in 1..Len(ms) |-> ltl_event(ms[k])]

\* text.find("{", header_end)
event_find_brace(s, header_end) ==
    LET hits == {b \in header_end..(Len(s) - 1) : At(s, b) = "{"}
    IN IF hits = {} THEN -1 ELSE Min(hits)

\* _extract_balanced_block(text, brace_pos).  With brace_pos = -1 the scan
\* reads text[-1], the last character, and then goes on from the start of
\* the text.
event_block_of(s, brace_pos) ==
    IF brace_pos >= 0 THEN event_extract_balanced_block(s, brace_pos)
    ELSE LET last == At(s, Len(s) - 1) IN
         event_scan_block(s, -1, 0,
             IF last = "{" THEN 1 ELSE IF last = "}" THEN -1 ELSE 0)

\* t[:-1] of the last token t of a text: nothing is left of a one-character
\* token; `here` is the longer word that ends a text.
ChopLastChar(t) == IF t = "here" THEN <<"her">> ELSE <<>>

\* text[header_end:brace_pos]; with brace_pos = -1 this is the text from
\* header_end on without its last character.
event_pointcut_slice(s, header_end, brace_pos) ==
    IF brace_pos >= 0 THEN Slice(s, header_end, brace_pos)
    ELSE IF header_end >= Len(s) THEN <<>>
    ELSE Slice(s, header_end, Len(s) - 1) \o ChopLastChar(At(s, Len(s) - 1))

event_event_with(s, m, brace_pos, tn) ==
    [kind |-> "event",
     name |-> Strip(m.name),
     timing |-> m.timing,
     parameters |-> event_parse_parameters(m.params),
     pointcut_raw |-> normalize(Strip(event_pointcut_slice(s, m.endpos, brace_pos))),
     body |-> [raw_lines |->
                  MapRStrip(NonBlank(SplitLines(event_block_of(s, brace_pos).content[1])))]]
    @@ Returning(tn, tn.name # <<>>)

event_event(s, m) ==
    event_event_with(s, m, event_find_brace(s, m.endpos),
                     type_and_name(Split(Strip(m.returning))))

event_extract_events(s) ==
    LET ms == event_matches(s, 0, "event") IN
    [k \in 1..Len(ms) |-> event_event(s, ms[k])]

\* comparator._extract_events, ev_re.match(ln):
\* ^(?:creation\s+)?event\s+([A-Za-z_]\w*)\s+(before|after)\b  ignoring case.
comparator_ev_re_match(ln) ==
    LET creation == /\ Len(ln) > 1 /\ Lower(At(ln, 0)) = "creation"
                    /\ IsWs(At(ln, 1))
        p == IF creation THEN SkipWs(ln, 1) ELSE 0
        q == SkipWs(ln, p + 1)
        e == WordRunEnd(ln, q)
        t == SkipWs(ln, e)
    IN IF /\ p < Len(ln) /\ Lower(At(ln, p)) = "event"
          /\ q > p + 1 /\ e > q /\ t > e /\ t < Len(ln)
          /\ Lower(At(ln, t)) \in {"before", "after"}
          /\ (t + 1 < Len(ln) => ~IsWord(At(ln, t + 1)))
       THEN [found |-> TRUE, name |-> Slice(ln, q, e), timing |-> Lower(At(ln, t))]
       ELSE NoMatch

\* The two loops of comparator._extract_events: the matching lines in order,
\* a (name, timing) pair kept at its first occurrence only.
RECURSIVE comparator_events_loop(_, _)
comparator_events_loop(lines, acc) ==
    IF Len(lines) = 0 THEN acc
    ELSE LET m == comparator_ev_re_match(lines[1])
             ev == [name |-> m.name, timing |-> m.timing]
         IN comparator_events_loop(Tail(lines),
                IF m.found /\ \A k \in 1..Len(acc) : acc[k] # ev
                THEN Append(acc, ev) ELSE acc)

comparator_extract_events(s) ==
    comparator_events_loop(MapStrip(NonBlank(SplitLines(s))), <<>>)

----------------------------------------------------------------------------
(* The event extractors applied to event declarations *)

MaxEventLines == 2

\* call(* A.m(..))
CallPointcut == <<"call", "(", "*", " ", "A", ".", "m", "(", ".", ".", ")", ")">>

\* call(* m(..)) && target(x) && !cflow(y)
BoundPointcut ==
    <<"call", "(", "*", " ", "m", "(", ".", ".", ")", ")", " ", "&", "&", " ",
      "target", "(", "x", ")", " ", "&", "&", " ", "!", "cflow", "(", "y", ")">>

\* KIND event NAME TIMING(PARAMS) RET : POINTCUT {BODY}
EventDecl(kind, name, timing, params_, ret, pointcut, body) ==
    kind \o <<"event", " ", name, " ", timing, "(">> \o params_ \o <<")">>
         \o ret \o <<" ", ":", " ">> \o pointcut \o <<" ", "{">> \o body \o <<"}">>

\* Bodies without inner braces and bodies with nested pairs.
FlatBodies == {<<>>, <<" ">>, <<"NL", " ", "x", " ", "NL">>}

NestedBodies ==
    { <<" ", "if", " ", "(", "a", ")", " ", "{", " ", "b", " ", "}", " ", "c", " ">>,
      <<"{", "}">>,
      <<"NL", " ", "{", "NL", "x", "NL", "}", "NL">> }

DeclsWith(timings, bodies) ==
    {EventDecl(kind, "e", timing, params_, ret, pointcut, body) :
        kind \in {<<>>, <<"creation", " ">>},
        timing \in timings,
        params_ \in {<<>>, <<"int", " ", "x">>},
        ret \in {<<>>, <<" ", "returning", "(", "T", " ", "r", ")">>},
        pointcut \in {CallPointcut, BoundPointcut},
        body \in bodies}

\* The declarations with a nested body and a timing as the grammar writes it.
NestedBodyDecls == DeclsWith({"before", "after"}, NestedBodies)

EventLines ==
    { EventDecl(<<>>, "e", "before", <<>>, <<>>, CallPointcut, <<>>),
      EventDecl(<<"creation", " ">>, "f", "AFTER", <<"int", " ", "x">>, <<>>,
                CallPointcut, <<" ", "x", " ">>),
      EventDecl(<<>>, "e", "before", <<>>, <<>>, CallPointcut,
                <<" ", "{", " ", "b", " ", "}", " ">>),
      <<"x", "event", " ", "f", " ", "after", "(", ")", " ", ":", " ", "{", "}">>,
      <<"event", " ", "e", " ", "before", "(", "int", " ", "x">>,
      <<" ", "event", " ", "e", " ", "after", "(", ")", " ", ":", " ", "call",
        "(", ")">>,
      <<"nothing", " ", "here">>,
      <<"}">>,
      <<>> }

InitEvents ==
    /\ pc = "start"
    /\ text \in DeclsWith({"before", "after", "BEFORE"}, FlatBodies \cup NestedBodies)
                \cup {JoinLines(ls) : ls \in Strs(EventLines, MaxEventLines)}
    /\ arg = 0
    /\ out = NoOut

CallFsmExtractEvents ==
    /\ pc = "start"
    /\ pc' = "done"
    /\ out' = [fn |-> "fsm.extract_events", events |-> fsm_extract_events(text)]
    /\ UNCHANGED <<text, arg>>

CallEreExtractEvents ==
    /\ pc = "start"
    /\ pc' = "done"
    /\ out' = [fn |-> "ere.extract_events", events |-> ere_extract_events(text)]
    /\ UNCHANGED <<text, arg>>

CallLtlExtractEvents ==
    /\ pc = "start"
    /\ pc' = "done"
    /\ out' = [fn |-> "ltl.extract_events", events |-> ltl_extract_events(text)]
    /\ UNCHANGED <<text, arg>>

CallEventExtractEvents ==
    /\ pc = "start"
    /\ pc' = "done"
    /\ out' = [fn |-> "event.extract_events", events |-> event_extract_events(text)]
    /\ UNCHANGED <<text, arg>>

CallComparatorExtractEvents ==
    /\ pc = "start"
    /\ pc' = "done"
    /\ out' = [fn |-> "comparator._extract_events",
               events |-> comparator_extract_events(text)]
    /\ UNCHANGED <<text, arg>>

NextEvents ==
    \/ CallFsmExtractEvents
    \/ CallEreExtractEvents
    \/ CallLtlExtractEvents
    \/ CallEventExtractEvents
    \/ CallComparatorExtractEvents

SpecEvents == InitEvents /\ [][NextEvents]_vars

\* The opening brace of a declaration's body, the brace that matches it, and
\* the non-blank lines of the text between the two.
BodyOpen(s) == Min({b \in 0..(Len(s) - 1) : At(s, b) = "{"})

MatchingBrace(s, o) ==
    CHOOSE j \in (o + 1)..(Len(s) - 1) :
        At(s, j) = "}" /\ Balanced(Slice(s, o + 1, j), "{", "}")

DeclaredBodyLines(s) ==
    MapStrip(NonBlank(SplitLines(Slice(s, BodyOpen(s) + 1,
                                       MatchingBrace(s, BodyOpen(s))))))

\* The event is reported, and the body it is reported with is the text up to
\* the matching brace.
BodyIsBalancedBlock ==
    /\ Len(out.events) = 1
    /\ "body" \in DOMAIN out.events[1] =>
           MapStrip(out.events[1].body.raw_lines) = DeclaredBodyLines(text)

\* C5: for an event declaration whose body has nested brace pairs, each of the
\* event, FSM and LTL event extractors reports the event, with the body that
\* runs up to the brace matching the body's opening brace.
C5_BodyIsBalancedBlock ==
    (/\ pc = "done"
     /\ out.fn \in {"event.extract_events", "fsm.extract_events",
                    "ltl.extract_events"}
     /\ text \in NestedBodyDecls)
        => BodyIsBalancedBlock

\* The extractor of event.py, which scans for the matching brace, does so.
EventExtractorBodyIsBalancedBlock ==
    (pc = "done" /\ out.fn = "event.extract_events" /\ text \in NestedBodyDecls)
        => BodyIsBalancedBlock /\ "body" \in DOMAIN out.events[1]

\* C7: every event an extractor reports has the timing "before" or "after".
C7_TimingIsBeforeOrAfter ==
    pc = "done" =>
        \A k \in 1..Len(out.events) : out.events[k].timing \in {"before", "after"}

\* The comparator's extractor lower-cases the timing; the LTL and event
\* patterns are case-sensitive.
CaseSensitiveTimingIsBeforeOrAfter ==
    (pc = "done" /\ out.fn \in {"comparator._extract_events",
                                "ltl.extract_events", "event.extract_events"})
        => \A k \in 1..Len(out.events) : out.events[k].timing \in {"before", "after"}

----------------------------------------------------------------------------
(* 4.6 and 4.7: the FSM body and the violation block *)

\* ^\s*([A-Za-z_]\w*)\s*\[\s*$  on one line (state_re, _STATE_OPEN_RE)
state_re_match(ln) ==
    LET q == SkipWs(ln, 0)
        e == WordRunEnd(ln, q)
        b == SkipWs(ln, e)
    IN IF e > q /\ b < Len(ln) /\ At(ln, b) = "[" /\ SkipWs(ln, b + 1) = Len(ln)
       THEN [found |-> TRUE, name |-> Slice(ln, q, e)]
       ELSE NoMatch

\* ^\s*([A-Za-z_]\w*)\s*->\s*([A-Za-z_]\w*)\s*$  on one line (trans_re,
\* _TRANS_LINE_RE)
trans_re_match(ln) ==
    LET q == SkipWs(ln, 0)
        e == WordRunEnd(ln, q)
        a == SkipWs(ln, e)
        q2 == SkipWs(ln, a + 1)
        e2 == WordRunEnd(ln, q2)
    IN IF /\ e > q /\ a < Len(ln) /\ At(ln, a) = "->"
          /\ e2 > q2 /\ SkipWs(ln, e2) = Len(ln)
       THEN [found |-> TRUE, event |-> Slice(ln, q, e), to |-> Slice(ln, q2, e2)]
       ELSE NoMatch

\* if x not in states: states.append(x)
AddState(states, x) ==
    IF \E k \in 1..Len(states) : states[k] = x THEN states ELSE Append(states, x)

\* current_state.lower() == "start"
LowerName(name) == [k \in 1..Len(name) |-> Lower(name[k])]

\* The pass of the loop without its last statement: the target of a
\* transition is not added to the states.
comparator_fsm_step_declared_only(st, ln, sm, tm) ==
    IF ln = <<>> THEN st
    ELSE IF sm.found
    THEN [st EXCEPT !.current_state = Some(sm.name),
                    !.states = AddState(@, sm.name),
                    !.start_state = IF LowerName(sm.name) = <<"start">>
                                    THEN Some(<<"start">>) ELSE @]
    ELSE IF ln = <<"]">> THEN [st EXCEPT !.current_state = None]
    ELSE IF tm.found /\ st.current_state # None
    THEN [st EXCEPT !.transitions = Append(@, [from |-> st.current_state[1],
                                               event |-> tm.event, to |-> tm.to])]
    ELSE st

\* comparator._parse_fsm_block, one pass of the for loop over the stripped
\* line ln.
comparator_fsm_step(st, ln, sm, tm) ==
    IF ln = <<>> THEN st
    ELSE IF sm.found
    THEN [st EXCEPT !.current_state = Some(sm.name),
                    !.states = AddState(@, sm.name),
                    !.start_state = IF LowerName(sm.name) = <<"start">>
                                    THEN Some(<<"start">>) ELSE @]
    ELSE IF ln = <<"]">> THEN [st EXCEPT !.current_state = None]
    ELSE IF tm.found /\ st.current_state # None
    THEN [st EXCEPT !.transitions = Append(@, [from |-> st.current_state[1],
                                               event |-> tm.event, to |-> tm.to]),
                    !.states = AddState(@, tm.to)]
    ELSE st

RECURSIVE comparator_fsm_loop(_, _)
comparator_fsm_loop(lines, st) ==
    IF Len(lines) = 0 THEN st
    ELSE comparator_fsm_loop(Tail(lines),
             comparator_fsm_step(st, Strip(lines[1]), state_re_match(Strip(lines[1])),
                                 trans_re_match(Strip(lines[1]))))

\* re.search(r"\bfsm\s*:\s*(.*)", text, DOTALL | IGNORECASE): the start of
\* group 1, -1 without a match.
comparator_fsm_after(s) ==
    LET hits == {i \in 0..(Len(s) - 2) :
                    /\ Lower(At(s, i)) = "fsm" /\ WordBoundaryBefore(s, i, 0)
                    /\ SkipWs(s, i + 1) < Len(s)
                    /\ At(s, SkipWs(s, i + 1)) = ":"}
    IN IF hits = {} THEN -1 ELSE SkipWs(s, SkipWs(s, Min(hits) + 1) + 1)

\* re.split(r"\n\s*@\w+\s*\{", after, maxsplit=1)[0]
comparator_fsm_cut(after) ==
    LET hits == {j \in 0..(Len(after) - 1) :
                    /\ At(after, j) = "NL"
                    /\ SkipWs(after, j + 1) < Len(after)
                    /\ At(after, SkipWs(after, j + 1)) = "@"
                    /\ WordRunEnd(after, SkipWs(after, j + 1) + 1)
                           > SkipWs(after, j + 1) + 1
                    /\ SkipWs(after, WordRunEnd(after, SkipWs(after, j + 1) + 1))
                           < Len(after)
                    /\ At(after, SkipWs(after,
                              WordRunEnd(after, SkipWs(after, j + 1) + 1))) = "{"}
    IN IF hits = {} THEN after ELSE Slice(after, 0, Min(hits))

\* The end of _parse_fsm_block: without a state named start the first state
\* is the start state.
comparator_fsm_result(st) ==
    [states |-> st.states,
     start_state |-> IF st.start_state = None /\ st.states # <<>>
                     THEN Some(st.states[1]) ELSE st.start_state,
     transitions |-> st.transitions]

comparator_parse_fsm_block(s) ==
    IF comparator_fsm_after(s) = -1
    THEN [states |-> <<>>, start_state |-> None, transitions |-> <<>>]
    ELSE comparator_fsm_result(
             comparator_fsm_loop(
                 SplitLines(comparator_fsm_cut(Slice(s, comparator_fsm_after(s), Len(s)))),
                 [states |-> <<>>, start_state |-> None, current_state |-> None,
                  transitions |-> <<>>]))

\* The words of the FSM texts in the order of Python's string comparison.
NameOrder ==
    <<"A", "CRITICAL", "FSM", "Level", "OutputStream", "RVMLogging", "START",
      "Socket", "Socket_SetTimeoutBeforeBlockingOutput", "a", "after", "b",
      "before", "blocked", "call", "condition", "e", "enter", "ere", "event",
      "fail", "fsm", "idle", "leave", "ltl", "out", "output", "println",
      "sock", "start", "target", "write", "x">>

TokenRank(t) == CHOOSE k \in 1..Len(NameOrder) : NameOrder[k] = t

RECURSIVE NameLeq(_, _)
NameLeq(x, y) ==
    IF Len(x) = 0 THEN TRUE
    ELSE IF Len(y) = 0 THEN FALSE
    ELSE IF x[1] = y[1] THEN NameLeq(Tail(x), Tail(y))
    ELSE TokenRank(x[1]) < TokenRank(y[1])

\* sorted(states_set)
RECURSIVE Sorted(_)
Sorted(S) ==
    IF S = {} THEN <<>>
    ELSE LET m == CHOOSE x \in S : \A y \in S : NameLeq(x, y)
         IN <<m>> \o Sorted(S \ {m})

\* fsm._parse_fsm_state_blocks, one pass of the for loop over line.rstrip().
fsm_blocks_step(st, line, m_open, m_tr) ==
    IF m_open.found
    THEN [st EXCEPT !.current_state = Some(m_open.name),
                    !.states_set = @ \cup {m_open.name},
                    !.initial_state = IF @ = None THEN Some(m_open.name) ELSE @,
                    !.inside = TRUE]
    ELSE IF st.inside /\ Strip(line) = <<"]">>
    THEN [st EXCEPT !.inside = FALSE, !.current_state = None]
    ELSE IF st.inside /\ st.current_state # None /\ m_tr.found
    THEN [st EXCEPT !.states_set = @ \cup {m_tr.to},
                    !.transitions = Append(@, [from |-> st.current_state[1],
                                               event |-> m_tr.event, to |-> m_tr.to])]
    ELSE st

RECURSIVE fsm_blocks_loop(_, _)
fsm_blocks_loop(lines, st) ==
    IF Len(lines) = 0 THEN st
    ELSE fsm_blocks_loop(Tail(lines),
             fsm_blocks_step(st, RStrip(lines[1]), state_re_match(RStrip(lines[1])),
                             trans_re_match(RStrip(lines[1]))))

fsm_blocks_result(st) ==
    [states |-> Sorted(st.states_set), initial |-> st.initial_state,
     transitions |-> st.transitions]

fsm_parse_fsm_state_blocks(lines) ==
    fsm_blocks_result(
        fsm_blocks_loop(lines, [states_set |-> {}, initial_state |-> None,
                                current_state |-> None, inside |-> FALSE,
                                transitions |-> <<>>]))

\* \s*$ under (?m) from position b: the last position of the white space
\* from b on that is the end of the text or is before a line break; -1 when
\* there is none.
LineEndAfter(s, b) ==
    LET ends == {e \in b..SkipWs(s, b) : e = Len(s) \/ At(s, e) = "NL"}
    IN IF ends = {} THEN -1 ELSE CHOOSE e \in ends : \A f \in ends : f <= e

\* _FSM_LINE_RE.search(text).end(), -1 without a match:  (?im)^\s*fsm\s*:\s*$
fsm_line_end(s) ==
    LET hits == {p \in 0..(Len(s) - 1) :
                    /\ LineStart(s, p)
                    /\ SkipWs(s, p) < Len(s)
                    /\ Lower(At(s, SkipWs(s, p))) = "fsm"
                    /\ SkipWs(s, SkipWs(s, p) + 1) < Len(s)
                    /\ At(s, SkipWs(s, SkipWs(s, p) + 1)) = ":"
                    /\ LineEndAfter(s, SkipWs(s, SkipWs(s, p) + 1) + 1) # -1}
    IN IF hits = {} THEN -1
       ELSE LineEndAfter(s, SkipWs(s, SkipWs(s, Min(hits)) + 1) + 1)

\* A line start of text[start:].
LineStartFrom(s, start, p) == p = start \/ At(s, p - 1) = "NL"

ViolationTags == {"fail", "violation", "match"}

\* fsm._find_next_directive_or_property_end
fsm_find_next_directive_or_property_end(s, start) ==
    LET m_dir == {p \in start..(Len(s) - 1) :
                     /\ LineStartFrom(s, start, p)
                     /\ SkipWs(s, p) + 1 < Len(s)
                     /\ At(s, SkipWs(s, p)) = "@"
                     /\ Lower(At(s, SkipWs(s, p) + 1)) \in ViolationTags
                     /\ (SkipWs(s, p) + 2 < Len(s) =>
                            ~IsWord(At(s, SkipWs(s, p) + 2)))}
        m_end == {p \in start..(Len(s) - 1) :
                     /\ LineStartFrom(s, start, p)
                     /\ SkipWs(s, p) < Len(s)
                     /\ At(s, SkipWs(s, p)) = "}"
                     /\ LineEndAfter(s, SkipWs(s, p) + 1) # -1}
    IN IF m_dir # {} THEN Min(m_dir)
       ELSE IF m_end # {} THEN Min(m_end)
       ELSE Len(s)

fsm_block_of(raw_lines, parsed) ==
    [raw_block |-> JoinLines(raw_lines), raw_lines |-> raw_lines,
     states |-> parsed.states, initial |-> parsed.initial,
     transitions |-> parsed.transitions]

fsm_block_lines(raw_lines) ==
    fsm_block_of(raw_lines, fsm_parse_fsm_state_blocks(raw_lines))

fsm_block_from(s, start) ==
    fsm_block_lines(NonBlank(SplitLines(
        RStrip(Slice(s, start, fsm_find_next_directive_or_property_end(s, start))))))

fsm_extract_fsm_block(s) ==
    IF fsm_line_end(s) = -1
    THEN [raw_block |-> <<>>, raw_lines |-> <<>>, states |-> <<>>,
          initial |-> None, transitions |-> <<>>]
    ELSE fsm_block_from(s, fsm_line_end(s))

\* re.search(r"@(fail|violation|match)\s*\{(.*?)\}", text, DOTALL | IGNORECASE):
\* the position of the "@" of the leftmost match, -1 without a match.
violation_search(s) ==
    LET hits == {i \in 0..(Len(s) - 3) :
                    /\ At(s, i) = "@"
                    /\ Lower(At(s, i + 1)) \in ViolationTags
                    /\ SkipWs(s, i + 2) < Len(s)
                    /\ At(s, SkipWs(s, i + 2)) = "{"
                    /\ \E k \in (SkipWs(s, i + 2) + 1)..(Len(s) - 1) : At(s, k) = "}"}
    IN IF hits = {} THEN -1 ELSE Min(hits)

\* Group 2 of the match whose "@" is at i.
violation_group(s, i) ==
    Slice(s, SkipWs(s, i + 2) + 1,
          Min({k \in (SkipWs(s, i + 2) + 1)..(Len(s) - 1) : At(s, k) = "}"}))

fsm_violation_at(s, i) ==
    IF i = -1 THEN [tag |-> None, raw_block |-> <<>>]
    ELSE [tag |-> Some(Lower(At(s, i + 1))),
          raw_block |-> MapStrip(NonBlank(SplitLines(Strip(violation_group(s, i)))))]

fsm_extract_violation_block(s) == fsm_violation_at(s, violation_search(s))

event_violation_at(s, i) ==
    IF i = -1 THEN [tag |-> None, raw_block |-> <<>>]
    ELSE [tag |-> Some(Lower(At(s, i + 1))),
          raw_block |-> MapStrip(NonBlank(SplitLines(violation_group(s, i))))]

event_extract_violation_block(s) == event_violation_at(s, violation_search(s))

----------------------------------------------------------------------------
(* 4.8: the IR assemblers *)

\* re.sub(r"/\*.*?\*/", "", text, flags=re.DOTALL)
\* The comments from position i on: the text up to the first /* that a */
\* follows is kept, and the substitution goes on after that */.
RECURSIVE strip_block_comments(_, _)
strip_block_from(s, i, opens) ==
    IF opens = {} THEN Slice(s, i, Len(s))
    ELSE Slice(s, i, Min(opens))
             \o strip_block_comments(s,
                    Min({j \in (Min(opens) + 1)..(Len(s) - 1) : At(s, j) = "*/"}) + 1)

strip_block_comments(s, i) ==
    strip_block_from(s, i,
        {p \in i..(Len(s) - 1) :
            At(s, p) = "/*" /\ \E j \in (p + 1)..(Len(s) - 1) : At(s, j) = "*/"})

\* The end of the line of position g: the next line break or the end.
LineEnd(s, g) == Min({k \in g..(Len(s) - 1) : At(s, k) = "NL"} \cup {Len(s)})

\* re.sub(r"//.*", "", text)
RECURSIVE strip_line_comments(_, _)
strip_line_from(s, i, marks) ==
    IF marks = {} THEN Slice(s, i, Len(s))
    ELSE Slice(s, i, Min(marks)) \o strip_line_comments(s, LineEnd(s, Min(marks)))

strip_line_comments(s, i) ==
    strip_line_from(s, i, {p \in i..(Len(s) - 1) : At(s, p) = "//"})

comparator_strip_comments(s) ==
    strip_line_comments(strip_block_comments(s, 0), 0)

\* The text of the string literal STR.
StrContent == "timeout missing"

\* re.search(r"\"([^\"]+)\"", scope) on the block of the first directive, or on
\* the whole text without one.
comparator_message_in(scope) ==
    IF \E k \in 1..Len(scope) : scope[k] = "STR" THEN StrContent
    ELSE "Violation detected."

comparator_message_at(s, i) ==
    comparator_message_in(IF i = -1 THEN s ELSE violation_group(s, i))

comparator_extract_violation_message(s) ==
    comparator_message_at(s, violation_search(s))

\* re.search(r"\bcondition\s*\(\s*(.*?)\s*\)", text, DOTALL | IGNORECASE)
comparator_guard_of(g) == IF g = <<>> THEN <<"true">> ELSE g

comparator_guard_at(s, hits) ==
    IF hits = {} THEN <<"true">>
    ELSE comparator_guard_of(normalize(
             Slice(s, SkipWs(s, Min(hits) + 1) + 1,
                   Min({k \in (SkipWs(s, Min(hits) + 1) + 1)..(Len(s) - 1) :
                           At(s, k) = ")"}))))

comparator_extract_guard(s) ==
    comparator_guard_at(s,
        {i \in 0..(Len(s) - 2) :
            /\ Lower(At(s, i)) = "condition" /\ WordBoundaryBefore(s, i, 0)
            /\ SkipWs(s, i + 1) < Len(s)
            /\ At(s, SkipWs(s, i + 1)) = "("
            /\ \E k \in (SkipWs(s, i + 1) + 1)..(Len(s) - 1) : At(s, k) = ")"})

\* \s*(.+) after the ":" at position c: where group 1 starts, -1 when it
\* cannot match.  After white space that runs to the end of the text the
\* group starts at the last blank.
formula_group_start(s, c) ==
    LET blanks == {j \in (c + 1)..(Len(s) - 1) : At(s, j) # "NL"}
    IN IF SkipWs(s, c + 1) < Len(s) THEN SkipWs(s, c + 1)
       ELSE IF blanks = {} THEN -1
       ELSE CHOOSE j \in blanks : \A k \in blanks : k <= j

\* re.search(r"\b(KW)\s*:\s*(.+)", text, IGNORECASE): the position of the
\* keyword of the leftmost match.
formula_hits(s, kws) ==
    {i \in 0..(Len(s) - 2) :
        /\ Lower(At(s, i)) \in kws /\ WordBoundaryBefore(s, i, 0)
        /\ SkipWs(s, i + 1) < Len(s)
        /\ At(s, SkipWs(s, i + 1)) = ":"
        /\ formula_group_start(s, SkipWs(s, i + 1)) # -1}

\* pat = m.group(N).strip(); pat.splitlines()[0].strip(): an IndexError when
\* the group is blank.
formula_of(pat) ==
    IF pat = <<>> THEN [raised |-> TRUE]
    ELSE [raised |-> FALSE, value |-> pat]

formula_from(s, g) == formula_of(Strip(Slice(s, g, LineEnd(s, g))))

formula_at(s, hits) ==
    IF hits = {} THEN [raised |-> FALSE, value |-> <<>>]
    ELSE formula_from(s, formula_group_start(s, SkipWs(s, Min(hits) + 1)))

\* _extract_ere_pattern(text) or ""
comparator_extract_ere_pattern(s) == formula_at(s, formula_hits(s, {"ere"}))

\* _extract_ltl_formula(text) or ""
comparator_extract_ltl_formula(s) == formula_at(s, formula_hits(s, {"ltl", "ptltl"}))

SpecId == "x"

Domain == "io"

UnknownEvent == [name |-> <<"UNKNOWN_EVENT">>, timing |-> "before"]

\* events if events else [{"name": "UNKNOWN_EVENT", "timing": "before"}]
OrUnknownEvent(events) == IF events = <<>> THEN <<UnknownEvent>> ELSE events

comparator_event_ir(text_) ==
    [id |-> SpecId, category |-> "EVENT",
     ir |-> [type |-> "event",
             events |-> OrUnknownEvent(comparator_extract_events(text_)),
             guard |-> comparator_extract_guard(text_),
             violation_message |-> comparator_extract_violation_message(text_)]]

comparator_formula_ir(text_, category, type, key, formula) ==
    IF formula.raised THEN [raised |-> TRUE]
    ELSE [id |-> SpecId, category |-> category,
          ir |-> [type |-> type,
                  events |-> OrUnknownEvent(comparator_extract_events(text_)),
                  violation_message |-> comparator_extract_violation_message(text_)]
                 @@ (IF key = "pattern" THEN [pattern |-> formula.value]
                     ELSE [formula |-> formula.value])]

comparator_fsm_ir(text_, parsed) ==
    [id |-> SpecId, category |-> "FSM",
     ir |-> [type |-> "fsm",
             states |-> IF parsed.states # <<>> THEN parsed.states
                        ELSE <<<<"start">>, <<"UNKNOWN_STATE">>>>,
             start_state |-> IF parsed.start_state # None
                             THEN parsed.start_state[1] ELSE <<"start">>,
             transitions |-> parsed.transitions,
             violation_message |-> comparator_extract_violation_message(text_)]]

comparator_ir_of(text_, spec_type) ==
    IF spec_type = "EVENT" THEN comparator_event_ir(text_)
    ELSE IF spec_type = "ERE"
    THEN comparator_formula_ir(text_, "ERE", "ere", "pattern",
                               comparator_extract_ere_pattern(text_))
    ELSE IF spec_type = "LTL"
    THEN comparator_formula_ir(text_, "LTL", "ltl", "formula",
                               comparator_extract_ltl_formula(text_))
    ELSE comparator_fsm_ir(text_, comparator_parse_fsm_block(text_))

comparator_ir_stripped(text_) == comparator_ir_of(text_, comparator_detect_category(text_))

mop_text_to_ir(mop_text) == comparator_ir_stripped(comparator_strip_comments(mop_text))

extract_fsm_ir_of(mop_text, fsm_block) ==
    [id |-> SpecId, formalism |-> "fsm", domain |-> Domain,
     signature |-> fsm_extract_signature(mop_text),
     ir |-> [type |-> "fsm",
             events |-> fsm_extract_events(mop_text),
             fsm |-> [raw_block |-> fsm_block.raw_block,
                      raw_lines |-> fsm_block.raw_lines],
             analysis |-> [states |-> fsm_block.states,
                           initial |-> fsm_block.initial,
                           transitions |-> fsm_block.transitions],
             violation |-> fsm_extract_violation_block(mop_text)]]

extract_fsm_ir(mop_text) == extract_fsm_ir_of(mop_text, fsm_extract_fsm_block(mop_text))

\* event.extract_signature
event_signature_params(params_raw) ==
    IF params_raw = None \/ params_raw = Some(<<>>) THEN <<>>
    ELSE event_params_of(event_split_commas_balanced(params_raw[1]))

event_signature_at(s, m) ==
    IF ~m.found THEN [parameters |-> <<>>]
    ELSE [name |-> m.name,
          parameters |->
              event_signature_params(fsm_extract_balanced_parens(s, m.open).content)]

event_extract_signature(s) == event_signature_at(s, header_search(s))

extract_event_ir(mop_text) ==
    [id |-> SpecId, formalism |-> "event", domain |-> Domain,
     signature |-> event_extract_signature(mop_text),
     ir |-> [type |-> "event",
             events |-> event_extract_events(mop_text),
             violation |-> event_extract_violation_block(mop_text)]]

----------------------------------------------------------------------------
(* The FSM parsers and the IR assemblers applied to FSM specifications *)

MaxBlocks == 2
MaxIrLines == 3

Ind6 == <<"    ", " ", " ">>

Ind8 == <<"    ", "    ">>

\* The lines of test_parse_fsm's specification before its `fsm :` line.
ExamplePrelude ==
    << <<>>,
       <<"    ", "Socket_SetTimeoutBeforeBlockingOutput", "(", "Socket",
         " ", "sock", ",", " ", "OutputStream", " ", "output", ")", " ",
         "{">>,
       <<"    ", " ", " ", "event", " ", "enter", " ", "before", "(",
         "OutputStream", " ", "output", ")", " ", ":">>,
       <<"    ", "    ", "call", "(", "*", " ", "OutputStream", "+", ".",
         "write", "(", ".", ".", ")", ")", " ", "&", "&", " ", "target",
         "(", "output", ")", " ", "{", "}">>,
       <<>>,
       <<"    ", " ", " ", "event", " ", "leave", " ", "after", "(",
         "OutputStream", " ", "output", ")", " ", ":">>,
       <<"    ", "    ", "call", "(", "*", " ", "OutputStream", "+", ".",
         "write", "(", ".", ".", ")", ")", " ", "&", "&", " ", "target",
         "(", "output", ")", " ", "{", "}">>,
       <<>> >>

FsmHeaderLine == Ind6 \o <<"fsm", " ", ":">>

\* The same header written without the blank.
FsmHeaderNoBlank == Ind6 \o <<"fsm", ":">>

EnterBlocked == <<"enter", " ", "->", " ", "blocked">>

LeaveStart == <<"leave", " ", "->", " ", "start">>

TransitionLists == {<<>>, <<EnterBlocked>>, <<LeaveStart>>, <<EnterBlocked, LeaveStart>>}

\* NAME [ / one line per transition / ]
BlockLines(name, ts) ==
    <<Ind8 \o <<name, " ", "[">>>>
        \o [k \in 1..Len(ts) |-> Ind8 \o <<" ", " ">> \o ts[k]]
        \o <<Ind8 \o <<"]">>>>

FsmBlocks ==
    {BlockLines(name, ts) : name \in {"start", "blocked", "START"},
                            ts \in TransitionLists}

\* The @fail section of test_parse_fsm's specification and what follows it.
FailHandler ==
    << <<>>,
       Ind6 \o <<"@", "fail", " ", "{">>,
       Ind8 \o <<"RVMLogging", ".", "out", ".", "println", "(", "Level", ".",
                 "CRITICAL", ",", " ", "STR", ")", ";">>,
       Ind6 \o <<"}">> >>

Closing == << <<"    ", "}">>, <<"    ">> >>

RECURSIVE Flatten(_)
Flatten(bs) == IF Len(bs) = 0 THEN <<>> ELSE bs[1] \o Flatten(Tail(bs))

\* An FSM specification around the state blocks bs, under the given header
\* line: the section alone, the section with the @fail section, or the whole
\* of the test's specification.
FsmSpecText(wrapper, header, bs) ==
    JoinLines(
        (IF wrapper = "example" THEN ExamplePrelude ELSE <<>>)
        \o <<header>> \o Flatten(bs)
        \o (IF wrapper = "section" THEN <<>> ELSE FailHandler \o Closing))

FsmSpecTexts ==
    {FsmSpecText(wrapper, header, bs) :
        wrapper \in {"section", "handler", "example"},
        header \in {FsmHeaderLine, FsmHeaderNoBlank},
        bs \in Strs(FsmBlocks, MaxBlocks)}

TwoStateBlocks ==
    <<BlockLines("start", <<EnterBlocked>>), BlockLines("blocked", <<LeaveStart>>)>>

\* The specification of test_parse_fsm.
TwoStateExample == FsmSpecText("example", FsmHeaderLine, TwoStateBlocks)

\* The same specification with its header written `fsm:`.
TwoStateNoBlank == FsmSpecText("example", FsmHeaderNoBlank, TwoStateBlocks)

IrLines ==
    { <<"fsm", " ", ":">>,
      <<" ", "fsm", ":">>,
      <<"idle", " ", "[">>,
      <<" ", "a", " ", "->", " ", "b", " ", "//", " ", "x">>,
      <<"]">>,
      <<"@", "fail", " ", "{", " ", "STR", " ", "}">>,
      <<"}">>,
      <<"ere", " ", ":", " ">>,
      <<"event", " ", "e", " ", "before", "(", ")", " ", ":", " ",
        "condition", "(", "x", ")", " ", "{", "}">>,
      <<>> }

InitIr ==
    /\ pc = "start"
    /\ text \in FsmSpecTexts \cup {JoinLines(ls) : ls \in Strs(IrLines, MaxIrLines)}
    /\ arg = 0
    /\ out = NoOut

CallParseFsmBlock ==
    /\ pc = "start"
    /\ pc' = "done"
    /\ out' = [fn |-> "comparator._parse_fsm_block"] @@ comparator_parse_fsm_block(text)
    /\ UNCHANGED <<text, arg>>

CallExtractFsmBlock ==
    /\ pc = "start"
    /\ pc' = "done"
    /\ out' = [fn |-> "fsm.extract_fsm_block"] @@ fsm_extract_fsm_block(text)
    /\ UNCHANGED <<text, arg>>

CallMopTextToIr ==
    /\ pc = "start"
    /\ pc' = "done"
    /\ out' = [fn |-> "comparator.mop_text_to_ir"] @@ mop_text_to_ir(text)
    /\ UNCHANGED <<text, arg>>

CallExtractFsmIr ==
    /\ pc = "start"
    /\ pc' = "done"
    /\ out' = [fn |-> "fsm.extract_fsm_ir"] @@ extract_fsm_ir(text)
    /\ UNCHANGED <<text, arg>>

CallExtractEventIr ==
    /\ pc = "start"
    /\ pc' = "done"
    /\ out' = [fn |-> "event.extract_event_ir"] @@ extract_event_ir(text)
    /\ UNCHANGED <<text, arg>>

NextIr ==
    \/ CallParseFsmBlock
    \/ CallExtractFsmBlock
    \/ CallMopTextToIr
    \/ CallExtractFsmIr
    \/ CallExtractEventIr

SpecIr == InitIr /\ [][NextIr]_vars

\* The shapes of the lines of an FSM section, read off the text:
\*   NAME [          a state block opens
\*   ]               it closes
\*   EVENT -> NAME   a transition
\*   @... or }       the section is over
AllWords(x) == x # <<>> /\ \A k \in 1..Len(x) : IsWord(x[k])

IsHeaderLine(ln) == Strip(ln) \in {<<"fsm", " ", ":">>, <<"fsm", ":">>}

OpenName(ln) == RStrip(SubSeq(Strip(ln), 1, Len(Strip(ln)) - 1))

IsOpenLine(ln) ==
    /\ Strip(ln) # <<>>
    /\ Strip(ln)[Len(Strip(ln))] = "["
    /\ AllWords(OpenName(ln))

IsCloseLine(ln) == Strip(ln) = <<"]">>

ArrowAt(ln) == CHOOSE i \in 1..Len(Strip(ln)) : Strip(ln)[i] = "->"

IsTransitionLine(ln) ==
    /\ Count(Strip(ln), "->") = 1
    /\ AllWords(RStrip(SubSeq(Strip(ln), 1, ArrowAt(ln) - 1)))
    /\ AllWords(LStrip(SubSeq(Strip(ln), ArrowAt(ln) + 1, Len(Strip(ln)))))

IsSectionEnd(ln) == Strip(ln) # <<>> /\ (Strip(ln)[1] = "@" \/ Strip(ln) = <<"}">>)

\* The index of the `fsm :` line and of the line that ends its section.
HeaderIndex(ls) == CHOOSE h \in 1..Len(ls) : IsHeaderLine(ls[h])

SectionEndIndex(ls) ==
    Min({e \in (HeaderIndex(ls) + 1)..Len(ls) : IsSectionEnd(ls[e])}
            \cup {Len(ls) + 1})

\* An FSM specification: one `fsm :` line, no comments, and its state blocks
\* and transitions all between that line and the end of the section.
WellFormedFsmSpec(s) ==
    /\ Count(s, "fsm") = 1
    /\ \E h \in 1..Len(SplitLines(s)) : IsHeaderLine(SplitLines(s)[h])
    /\ \A k \in 1..Len(s) : s[k] \notin {"//", "/*", "*/"}
    /\ \A k \in 1..Len(SplitLines(s)) :
          (IsOpenLine(SplitLines(s)[k]) \/ IsTransitionLine(SplitLines(s)[k]))
              => /\ HeaderIndex(SplitLines(s)) < k
                 /\ k < SectionEndIndex(SplitLines(s))

\* The open line of the block that line k is in: the last open line before k
\* with no close line after it.
EnclosingOpen(ls, k) ==
    {j \in 1..(k - 1) :
        /\ IsOpenLine(ls[j])
        /\ \A i \in (j + 1)..(k - 1) : ~IsOpenLine(ls[i]) /\ ~IsCloseLine(ls[i])}

TransitionAt(ls, k) ==
    [from |-> OpenName(ls[CHOOSE j \in EnclosingOpen(ls, k) : TRUE]),
     event |-> RStrip(SubSeq(Strip(ls[k]), 1, ArrowAt(ls[k]) - 1)),
     to |-> LStrip(SubSeq(Strip(ls[k]), ArrowAt(ls[k]) + 1, Len(Strip(ls[k]))))]

\* One transition per transition line inside a block, in the order of the
\* lines, from line k on.
RECURSIVE TransitionsFrom(_, _)
TransitionsFrom(ls, k) ==
    IF k > Len(ls) THEN <<>>
    ELSE (IF IsTransitionLine(ls[k]) /\ EnclosingOpen(ls, k) # {}
          THEN <<TransitionAt(ls, k)>> ELSE <<>>) \o TransitionsFrom(ls, k + 1)

ExpectedTransitions(s) == TransitionsFrom(SplitLines(s), 1)

\* The names of the declared states in the order of their blocks.
RECURSIVE DeclaredFrom(_, _)
DeclaredFrom(ls, k) ==
    IF k > Len(ls) THEN <<>>
    ELSE (IF IsOpenLine(ls[k]) THEN <<OpenName(ls[k])>> ELSE <<>>)
             \o DeclaredFrom(ls, k + 1)

DeclaredStates(s) == DeclaredFrom(SplitLines(s), 1)

StartsDeclared(s) ==
    {k \in 1..Len(DeclaredStates(s)) : LowerName(DeclaredStates(s)[k]) = <<"start">>}

ExpectedInitial(s) ==
    IF StartsDeclared(s) # {} THEN Some(DeclaredStates(s)[Min(StartsDeclared(s))])
    ELSE IF DeclaredStates(s) # <<>> THEN Some(DeclaredStates(s)[1])
    ELSE None

\* The fields of the two IR layouts.
IrTransitions(o) ==
    IF o.fn = "comparator.mop_text_to_ir" THEN o.ir.transitions
    ELSE o.ir.analysis.transitions

IrStates(o) ==
    IF o.fn = "comparator.mop_text_to_ir" THEN o.ir.states ELSE o.ir.analysis.states

IrFormalism(o) ==
    IF o.fn = "comparator.mop_text_to_ir" THEN Lower(o.category) ELSE o.formalism

IrViolationNonEmpty(o) ==
    IF o.fn = "comparator.mop_text_to_ir" THEN o.ir.violation_message # ""
    ELSE o.ir.violation.tag # None /\ o.ir.violation.raw_block # <<>>

\* C6: every IR has a non-empty event list; a text that declares no event
\* gives exactly the placeholder event UNKNOWN_EVENT with timing before.
C6_EventsNonEmpty ==
    (/\ pc = "done"
     /\ out.fn \in {"comparator.mop_text_to_ir", "fsm.extract_fsm_ir",
                    "event.extract_event_ir"}
     /\ "ir" \in DOMAIN out)
        => /\ "events" \in DOMAIN out.ir
           /\ out.ir.events # <<>>
           /\ Count(text, "event") = 0 =>
                  /\ Len(out.ir.events) = 1
                  /\ out.ir.events[1].name = <<"UNKNOWN_EVENT">>
                  /\ out.ir.events[1].timing = "before"

\* The comparator's assembler does so for the EVENT, ERE and LTL categories.
ComparatorEventsNonEmpty ==
    (/\ pc = "done"
     /\ out.fn = "comparator.mop_text_to_ir"
     /\ "ir" \in DOMAIN out
     /\ out.category # "FSM")
        => /\ out.ir.events # <<>>
           /\ Count(text, "event") = 0 => out.ir.events = <<UnknownEvent>>

\* C9: the initial state of a parsed FSM is the declared state named start,
\* in any case, when there is one, and the first declared state otherwise.
C9_InitialState ==
    (/\ pc = "done"
     /\ out.fn \in {"comparator._parse_fsm_block", "fsm.extract_fsm_block"}
     /\ WellFormedFsmSpec(text))
        => (IF out.fn = "fsm.extract_fsm_block" THEN out.initial ELSE out.start_state)
               = ExpectedInitial(text)

\* What the comparator's parser does: the literal name start when a declared
\* state is named start in any case, the first declared state otherwise.
ComparatorInitialState ==
    (/\ pc = "done"
     /\ out.fn = "comparator._parse_fsm_block"
     /\ WellFormedFsmSpec(text))
        => out.start_state =
               IF StartsDeclared(text) # {} THEN Some(<<"start">>)
               ELSE ExpectedInitial(text)

\* C10: for an FSM specification the assembled IR is of type fsm and has one
\* transition per `event -> target` line inside a state block, in the order
\* of the text, each from the state of its block; for the two-state
\* specification of test_parse_fsm it has the two states start and blocked,
\* two transitions and a non-empty violation.
C10_FsmIr ==
    (/\ pc = "done"
     /\ out.fn \in {"comparator.mop_text_to_ir", "fsm.extract_fsm_ir"}
     /\ WellFormedFsmSpec(text)
     /\ DeclaredStates(text) # <<>>)
        => /\ out.ir.type = "fsm"
           /\ IrFormalism(out) = "fsm"
           /\ IrTransitions(out) = ExpectedTransitions(text)
           /\ text \in {TwoStateExample, TwoStateNoBlank} =>
                  /\ Len(IrStates(out)) = 2
                  /\ {IrStates(out)[k] : k \in 1..2} = {<<"start">>, <<"blocked">>}
                  /\ Len(IrTransitions(out)) = 2
                  /\ IrViolationNonEmpty(out)

\* Both assemblers do so when the header is written `fsm :`, with the blank;
\* fsm.extract_fsm_ir also when it is written `fsm:`.
FsmIrUnderSpacedHeader ==
    (/\ pc = "done"
     /\ out.fn \in {"comparator.mop_text_to_ir", "fsm.extract_fsm_ir"}
     /\ WellFormedFsmSpec(text)
     /\ \/ out.fn = "fsm.extract_fsm_ir"
        \/ Strip(SplitLines(text)[HeaderIndex(SplitLines(text))]) = <<"fsm", " ", ":">>)
        => /\ out.ir.type = "fsm"
           /\ IrFormalism(out) = "fsm"
           /\ IrTransitions(out) = ExpectedTransitions(text)
           /\ text \in {TwoStateExample, TwoStateNoBlank} =>
                  /\ Len(IrStates(out)) = 2
                  /\ {IrStates(out)[k] : k \in 1..2} = {<<"start">>, <<"blocked">>}
                  /\ Len(IrTransitions(out)) = 2
                  /\ IrViolationNonEmpty(out)

----------------------------------------------------------------------------
(* 4.7: the violation extractors of the three converters *)

\* ltl.extract_violation_block: the lines alone, no tag.
ltl_violation_at(s, i) ==
    IF i = -1 THEN [raw_block |-> <<>>]
    ELSE [raw_block |-> MapStrip(NonBlank(SplitLines(Strip(violation_group(s, i)))))]

ltl_extract_violation_block(s) == ltl_violation_at(s, violation_search(s))

MaxViolationLines == 3

ViolationLines ==
    { <<"@", "fail", " ", "{">>,
      <<" ", "@", "FAIL", "{", " ", "STR", " ", "}">>,
      <<"@", "violation", " ", "{", " ", "x", ";", " ", "}", " ", "}">>,
      <<"@", "match", " ">>,
      <<"    ", "out", ".", "println", "(", "STR", ")", ";", " ">>,
      <<" ", "{", " ", "x", ";">>,
      <<"}">>,
      <<" ">> }

InitViolation ==
    /\ pc = "start"
    /\ text \in {JoinLines(ls) : ls \in Strs(ViolationLines, MaxViolationLines)}
    /\ arg = 0
    /\ out = NoOut

CallFsmExtractViolationBlock ==
    /\ pc = "start"
    /\ pc' = "done"
    /\ out' = [fn |-> "fsm.extract_violation_block"] @@ fsm_extract_violation_block(text)
    /\ UNCHANGED <<text, arg>>

CallLtlExtractViolationBlock ==
    /\ pc = "start"
    /\ pc' = "done"
    /\ out' = [fn |-> "ltl.extract_violation_block"] @@ ltl_extract_violation_block(text)
    /\ UNCHANGED <<text, arg>>

CallEventExtractViolationBlock ==
    /\ pc = "start"
    /\ pc' = "done"
    /\ out' = [fn |-> "event.extract_violation_block"]
                  @@ event_extract_violation_block(text)
    /\ UNCHANGED <<text, arg>>

NextViolation ==
    \/ CallFsmExtractViolationBlock
    \/ CallLtlExtractViolationBlock
    \/ CallEventExtractViolationBlock

SpecViolation == InitViolation /\ [][NextViolation]_vars

\* Where a violation block opens: an "@", a tag in any case, white space and
\* an opening brace that some closing brace follows.
BlockOpensAt(s, i) ==
    /\ i + 2 <= Len(s)
    /\ s[i] = "@"
    /\ Lower(s[i + 1]) \in ViolationTags
    /\ \E b \in (i + 2)..Len(s) :
          /\ s[b] = "{"
          /\ \A w \in (i + 2)..(b - 1) : IsWs(s[w])
          /\ \E c \in (b + 1)..Len(s) : s[c] = "}"

BlockOpenings(s) == {i \in 1..Len(s) : BlockOpensAt(s, i)}

FirstBlock(s) == CHOOSE i \in BlockOpenings(s) : \A j \in BlockOpenings(s) : i <= j

\* The interior of the block that opens at i: from its opening brace to the
\* next closing brace.
BlockBrace(s, i) == CHOOSE b \in (i + 2)..Len(s) : s[b] = "{" /\ \A w \in (i + 2)..(b - 1) : IsWs(s[w])

BlockInterior(s, i) ==
    SubSeq(s, BlockBrace(s, i) + 1,
           (CHOOSE c \in (BlockBrace(s, i) + 1)..Len(s) :
               s[c] = "}" /\ \A d \in (BlockBrace(s, i) + 1)..(c - 1) : s[d] # "}") - 1)

\* Its trimmed non-blank lines in order.
RECURSIVE TrimmedLines(_)
TrimmedLines(ls) ==
    IF ls = <<>> THEN <<>>
    ELSE (IF \A k \in 1..Len(ls[1]) : IsWs(ls[1][k]) THEN <<>> ELSE <<Strip(ls[1])>>)
             \o TrimmedLines(Tail(ls))

ExpectedViolation(s) ==
    IF BlockOpenings(s) = {} THEN [tag |-> None, raw_block |-> <<>>]
    ELSE [tag |-> Some(Lower(s[FirstBlock(s) + 1])),
          raw_block |-> TrimmedLines(SplitLines(BlockInterior(s, FirstBlock(s))))]

\* C11: each of the three violation extractors returns a record with a tag
\* and a line sequence: the lower-cased tag and the trimmed non-blank interior
\* lines of the first violation block, or tag none and no lines when the text
\* has no such block.
C11_ViolationRecord ==
    (pc = "done" /\ out.fn \in {"fsm.extract_violation_block",
                                "ltl.extract_violation_block",
                                "event.extract_violation_block"})
        => /\ "tag" \in DOMAIN out
           /\ "raw_block" \in DOMAIN out
           /\ out.tag = ExpectedViolation(text).tag
           /\ out.raw_block = ExpectedViolation(text).raw_block

\* The extractors of fsm.py and event.py do; the extractor of ltl.py returns
\* the same lines without a tag.
FsmEventViolationRecord ==
    (pc = "done" /\ out.fn \in {"fsm.extract_violation_block",
                                "ltl.extract_violation_block",
                                "event.extract_violation_block"})
        => /\ "raw_block" \in DOMAIN out
           /\ out.raw_block = ExpectedViolation(text).raw_block
           /\ out.fn # "ltl.extract_violation_block" =>
                  "tag" \in DOMAIN out /\ out.tag = ExpectedViolation(text).tag

----------------------------------------------------------------------------
(* 3: the domain of an IR, from the segments of the input path *)

\* convert/mop_to_ir.py detect_domain over path.parts
RECURSIVE detect_domain(_)
detect_domain(parts) ==
    IF Len(parts) = 0 THEN "unknown"
    ELSE IF parts[1] \in {"io", "lang", "util", "net"} THEN parts[1]
    ELSE detect_domain(Tail(parts))

\* parts = [p.lower() for p in mop_path.parts]
LowerParts(parts) == [k \in 1..Len(parts) |-> Lower(parts[k])]

\* for domain in ("io", "lang", "util", "net", "concurrent"): if domain in parts
RECURSIVE infer_domain_loop(_, _)
infer_domain_loop(domains, parts) ==
    IF Len(domains) = 0 THEN "other"
    ELSE IF \E k \in 1..Len(parts) : parts[k] = domains[1] THEN domains[1]
    ELSE infer_domain_loop(Tail(domains), parts)

\* comparator/mop_to_ir.py _infer_domain_from_path
comparator_infer_domain_from_path(parts) ==
    infer_domain_loop(<<"io", "lang", "util", "net", "concurrent">>, LowerParts(parts))

MaxPathParts == 3

PathSegments == {"io", "lang", "util", "net", "concurrent", "IO", "raw_mop", "A.mop"}

InitDomain ==
    /\ pc = "start"
    /\ text \in Strs(PathSegments, MaxPathParts)
    /\ arg = 0
    /\ out = NoOut

CallDetectDomain ==
    /\ pc = "start"
    /\ pc' = "done"
    /\ out' = [fn |-> "convert.detect_domain", domain |-> detect_domain(text)]
    /\ UNCHANGED <<text, arg>>

CallInferDomainFromPath ==
    /\ pc = "start"
    /\ pc' = "done"
    /\ out' = [fn |-> "comparator._infer_domain_from_path",
               domain |-> comparator_infer_domain_from_path(text)]
    /\ UNCHANGED <<text, arg>>

NextDomain == CallDetectDomain \/ CallInferDomainFromPath

SpecDomain == InitDomain /\ [][NextDomain]_vars

DomainNames == {"io", "lang", "util", "net", "concurrent"}

\* The domain names among the segments of a path, as written and in any case.
SegmentDomains(parts) == {parts[k] : k \in 1..Len(parts)} \cap DomainNames

SegmentDomainsAnyCase(parts) == {Lower(parts[k]) : k \in 1..Len(parts)} \cap DomainNames

\* C12: the domain is one of the domain names that is a segment of the path
\* when there is one, `other` or `unknown` when no segment is a domain name,
\* and never another string; under a `concurrent` directory it is concurrent.
C12_DomainFromSegments ==
    (pc = "done" /\ out.fn \in {"convert.detect_domain",
                                "comparator._infer_domain_from_path"})
        => /\ out.domain \in DomainNames \cup {"other", "unknown"}
           /\ SegmentDomains(text) # {} => out.domain \in SegmentDomainsAnyCase(text)
           /\ SegmentDomainsAnyCase(text) = {} => out.domain \in {"other", "unknown"}
           /\ SegmentDomainsAnyCase(text) = {"concurrent"} => out.domain = "concurrent"

\* The comparator's function does so; the converter's does so for the paths
\* with no `concurrent` segment.
DomainFromSegmentsButConcurrent ==
    (/\ pc = "done"
     /\ out.fn \in {"convert.detect_domain", "comparator._infer_domain_from_path"}
     /\ \/ out.fn = "comparator._infer_domain_from_path"
        \/ \A k \in 1..Len(text) : text[k] # "concurrent")
        => /\ out.domain \in DomainNames \cup {"other", "unknown"}
           /\ SegmentDomains(text) # {} => out.domain \in SegmentDomainsAnyCase(text)
           /\ SegmentDomainsAnyCase(text) = {} => out.domain \in {"other", "unknown"}
           /\ SegmentDomainsAnyCase(text) = {"concurrent"} => out.domain = "concurrent"

----------------------------------------------------------------------------
(* 4.10: the batch drivers *)

\* An input file as the drivers see it: its path under the root (directory
\* and stem), whether read_text succeeds on it (a directory named X.mop does
\* not), whether its target can be opened for writing, and its text.
MopFile(dir, stem, readable, writable, t) ==
    [dir |-> dir, stem |-> stem, readable |-> readable, writable |-> writable,
     text |-> t]

SUPPORTED == {"ltl", "fsm", "ere", "event"}

\* convert/mop_to_ir.py convert_mop_file_to_ir, by the formalism of the IR it
\* returns: the four extractors raise on no text.
convert_mop_file_to_ir(file) ==
    IF ~file.readable THEN [raised |-> TRUE]
    ELSE IF detect_formalism(file.text) \in SUPPORTED
    THEN [raised |-> FALSE, formalism |-> detect_formalism(file.text)]
    ELSE [raised |-> TRUE]

\* comparator/mop_to_ir.py mop_file_to_ir, by the category of the IR.
mop_file_to_ir(file) ==
    IF ~file.readable THEN [raised |-> TRUE]
    ELSE IF "raised" \in DOMAIN mop_text_to_ir(file.text) THEN [raised |-> TRUE]
    ELSE [raised |-> FALSE, formalism |-> mop_text_to_ir(file.text).category]

\* out_dir / relative.with_suffix(".json"), or out_dir / f"{stem}.json"
TargetOf(file, keep_structure) ==
    IF keep_structure THEN <<file.dir, file.stem>> ELSE <<file.stem>>

\* open(target, "w") and json.dump, then count += 1
WriteRecord(st, file, keep_structure, ir) ==
    IF ir.raised \/ ~file.writable THEN [st EXCEPT !.status = "raised"]
    ELSE [st EXCEPT !.written = Append(@, [file |-> <<file.dir, file.stem>>,
                                           target |-> TargetOf(file, keep_structure),
                                           formalism |-> ir.formalism]),
                    !.count = @ + 1]

\* A variant of the converter's loop body that counts a skipped file as
\* converted.
convert_dir_iteration_counting_skipped(st, file, keep_structure) ==
    IF ~file.readable THEN [st EXCEPT !.status = "raised"]
    ELSE IF detect_formalism(file.text) \notin SUPPORTED
    THEN [st EXCEPT !.count = @ + 1]
    ELSE WriteRecord(st, file, keep_structure, convert_mop_file_to_ir(file))

\* convert/mop_to_ir.py convert_mop_dir_to_ir, the body of its for loop
convert_dir_iteration(st, file, keep_structure) ==
    IF ~file.readable THEN [st EXCEPT !.status = "raised"]
    ELSE IF detect_formalism(file.text) \notin SUPPORTED THEN st
    ELSE WriteRecord(st, file, keep_structure, convert_mop_file_to_ir(file))

\* comparator/mop_to_ir.py convert_mop_dir_to_ir, the body of its for loop
comparator_dir_iteration(st, file, keep_structure) ==
    WriteRecord(st, file, keep_structure, mop_file_to_ir(file))

\* except Exception as e: print(...)
CatchFailure(st, after, file) ==
    IF after.status = "raised"
    THEN [st EXCEPT !.errors = Append(@, <<file.dir, file.stem>>)]
    ELSE after

\* scripts/app_generated_mop_to_ir.py main, the body of its for loop: the read
\* and the detection before the try, the conversion and the write inside it.
main_iteration(st, file) ==
    IF ~file.readable THEN [st EXCEPT !.status = "raised"]
    ELSE IF detect_formalism(file.text) \notin SUPPORTED THEN st
    ELSE CatchFailure(st, WriteRecord(st, file, TRUE, convert_mop_file_to_ir(file)),
                      file)

MaxFiles == 3

\* Two LTL/FSM files of the same stem in two directories, a file whose ERE
\* pattern is blank, an EVENT file, a file of no formalism, a directory named
\* E.mop, and a file whose target cannot be written.
FilePool ==
    { MopFile("io", "A", TRUE, TRUE, <<"ltl", " ", ":", " ", "x">>),
      MopFile("net", "A", TRUE, TRUE, <<"fsm", " ", ":">>),
      MopFile("io", "B", TRUE, TRUE, <<"ere", " ", ":", " ">>),
      MopFile("io", "C", TRUE, TRUE, <<"event", " ", "e">>),
      MopFile("io", "D", TRUE, TRUE, <<"nothing">>),
      MopFile("io", "E", FALSE, TRUE, <<>>),
      MopFile("io", "F", TRUE, FALSE, <<"ltl", " ", ":", " ", "x">>) }

\* What rglob yields: each file once, in any order.
Batches ==
    {fs \in Strs(FilePool, MaxFiles) :
        \A i, j \in 1..Len(fs) : i # j => fs[i] # fs[j]}

NewBatch(fn) ==
    [fn |-> fn, written |-> <<>>, count |-> 0, errors |-> <<>>, status |-> "running"]

InitBatch ==
    /\ pc = "start"
    /\ text \in [files : Batches, keep_structure : BOOLEAN]
    /\ arg = 0
    /\ out = NoOut

BeginConvertDir ==
    /\ pc = "start"
    /\ pc' = "loop"
    /\ out' = NewBatch("convert.convert_mop_dir_to_ir")
    /\ UNCHANGED <<text, arg>>

BeginComparatorDir ==
    /\ pc = "start"
    /\ pc' = "loop"
    /\ out' = NewBatch("comparator.convert_mop_dir_to_ir")
    /\ UNCHANGED <<text, arg>>

\* main always mirrors the structure of its input.
BeginMain ==
    /\ pc = "start"
    /\ text.keep_structure
    /\ pc' = "loop"
    /\ out' = NewBatch("app_generated_mop_to_ir.main")
    /\ UNCHANGED <<text, arg>>

\* One pass of the loop of the driver that runs, over the next file; an
\* exception that leaves the loop ends the call.
IterateWith(after) ==
    /\ out' = after
    /\ arg' = arg + 1
    /\ pc' = IF after.status = "raised" THEN "done" ELSE "loop"
    /\ UNCHANGED text

ConvertDirIterate ==
    /\ pc = "loop"
    /\ out.fn = "convert.convert_mop_dir_to_ir"
    /\ arg < Len(text.files)
    /\ IterateWith(convert_dir_iteration(out, text.files[arg + 1], text.keep_structure))

ComparatorDirIterate ==
    /\ pc = "loop"
    /\ out.fn = "comparator.convert_mop_dir_to_ir"
    /\ arg < Len(text.files)
    /\ IterateWith(comparator_dir_iteration(out, text.files[arg + 1],
                                            text.keep_structure))

MainIterate ==
    /\ pc = "loop"
    /\ out.fn = "app_generated_mop_to_ir.main"
    /\ arg < Len(text.files)
    /\ IterateWith(main_iteration(out, text.files[arg + 1]))

\* return count, after the last file
BatchReturn ==
    /\ pc = "loop"
    /\ arg = Len(text.files)
    /\ pc' = "done"
    /\ out' = [out EXCEPT !.status = "returned"]
    /\ UNCHANGED <<text, arg>>

NextBatch ==
    \/ BeginConvertDir
    \/ BeginComparatorDir
    \/ BeginMain
    \/ ConvertDirIterate
    \/ ComparatorDirIterate
    \/ MainIterate
    \/ BatchReturn

SpecBatch == InitBatch /\ [][NextBatch]_vars

BatchDrivers ==
    {"convert.convert_mop_dir_to_ir", "comparator.convert_mop_dir_to_ir",
     "app_generated_mop_to_ir.main"}

\* The file fails under the driver fn: it cannot be read, its target cannot
\* be written, or its extraction raises.
FileFails(file, fn) ==
    \/ ~file.readable
    \/ ~file.writable
    \/ fn = "comparator.convert_mop_dir_to_ir" /\ mop_file_to_ir(file).raised

\* The file has a formalism the driver fn converts.
FileSupported(file, fn) ==
    /\ file.readable
    /\ \/ fn = "comparator.convert_mop_dir_to_ir"
       \/ detect_formalism(file.text) \in SUPPORTED

WrittenFiles == {out.written[k].file : k \in 1..Len(out.written)}

\* C13: a batch always returns, and every file with a supported formalism
\* that does not itself fail has been written, whatever other files fail.
C13_BatchSurvivesFailures ==
    (pc = "done" /\ out.fn \in BatchDrivers)
        => /\ out.status = "returned"
           /\ \A k \in 1..Len(text.files) :
                 (FileSupported(text.files[k], out.fn) /\ ~FileFails(text.files[k], out.fn))
                     => <<text.files[k].dir, text.files[k].stem>> \in WrittenFiles

\* main survives the failures of the conversion and of the write, which are
\* inside its try statement: with every file readable it returns, having
\* written every supported file that does not fail and recorded the others.
MainSurvivesConversionFailures ==
    (/\ pc = "done"
     /\ out.fn = "app_generated_mop_to_ir.main"
     /\ \A k \in 1..Len(text.files) : text.files[k].readable)
        => /\ out.status = "returned"
           /\ \A k \in 1..Len(text.files) :
                 FileSupported(text.files[k], out.fn)
                     => IF FileFails(text.files[k], out.fn)
                        THEN \E e \in 1..Len(out.errors) :
                                 out.errors[e] = <<text.files[k].dir, text.files[k].stem>>
                        ELSE <<text.files[k].dir, text.files[k].stem>> \in WrittenFiles

\* The paths of the first n files of the batch whose detected formalism is
\* one of the four, in the order of the batch.
RECURSIVE SupportedPaths(_, _)
SupportedPaths(files, n) ==
    IF n = 0 THEN <<>>
    ELSE SupportedPaths(files, n - 1)
             \o (IF detect_formalism(files[n].text) \in SUPPORTED
                 THEN <<<<files[n].dir, files[n].stem>>>> ELSE <<>>)

----------------------------------------------------------------------------
(* 5: the weighted distance between feature vectors *)

\* A Python float that is a multiple of 2^-53 below 256, kept exactly as
\* hi * 2^30 + lo units of 2^-53.  Rounding is IEEE 754 binary64, to nearest
\* with ties to even, as the "+" and "*" of Python floats round.
Limb == 2^30

Zero == [hi |-> 0, lo |-> 0]

\* h / 2 for a natural h
Halves(h) == [hi |-> h * (2^22), lo |-> 0]

\* 0.8 = 0x1.999999999999ap-1 and 1.2 = 0x1.3333333333333p+0
D0_8 == [hi |-> 6710886, lo |-> 429496730]

D1_2 == [hi |-> 10066329, lo |-> 644245094]

Normalized(hi, lo) == [hi |-> hi + (lo \div Limb), lo |-> lo % Limb]

\* The sum in the reals.
ExactAdd(x, y) == Normalized(x.hi + y.hi, x.lo + y.lo)

\* n times w in the reals.
RECURSIVE ExactTimes(_, _)
ExactTimes(w, n) == IF n = 0 THEN Zero ELSE ExactAdd(w, ExactTimes(w, n - 1))

\* The distance between neighbouring floats at x, in units: 1 below 1.0, 2
\* from 1.0 to 2.0, 4 from 2.0 to 4.0, and so on.
RECURSIVE UlpFrom(_, _)
UlpFrom(hi, j) == IF hi < 2^(23 + j) THEN 2^j ELSE UlpFrom(hi, j + 1)

Ulp(x) == UlpFrom(x.hi, 0)

RoundTo(x, q, r) ==
    IF r = 0 THEN x
    ELSE IF 2 * r > q \/ (2 * r = q /\ (x.lo \div q) % 2 = 1)
    THEN Normalized(x.hi, x.lo - r + q)
    ELSE [hi |-> x.hi, lo |-> x.lo - r]

RoundNearestEven(x) == RoundTo(x, Ulp(x), x.lo % Ulp(x))

\* a + b and w * n on floats
fadd(x, y) == RoundNearestEven(ExactAdd(x, y))

fmul(w, n) == RoundNearestEven(ExactTimes(w, n))

Abs(n) == IF n < 0 THEN 0 - n ELSE n

\* v.get(key, 0)
Get(v, key) == IF key \in DOMAIN v THEN v[key] ELSE 0

\* weights.get(key, 1.0)
WeightOf(weights, key) == IF key \in DOMAIN weights THEN weights[key] ELSE Halves(2)

\* weights.get(key, 1.0) * abs(v1.get(key, 0) - v2.get(key, 0))
Term(v1, v2, weights, key) ==
    fmul(WeightOf(weights, key), Abs(Get(v1, key) - Get(v2, key)))

\* for key in keys: distance += term, over a set: the order of the keys is
\* the set's, which differs between sets built in different orders and
\* between runs.  All the values the loop can leave in distance.
RECURSIVE Accumulations(_, _, _)
Accumulations(terms, keys, distance) ==
    IF keys = {} THEN {distance}
    ELSE UNION {Accumulations(terms, keys \ {key}, fadd(distance, terms[key])) :
                   key \in keys}

\* A term of 0.0 leaves distance as it is wherever its key comes in the
\* order, so the orders of the other keys give all the values.
AccumulationsOf(terms) ==
    Accumulations(terms, {key \in DOMAIN terms : terms[key] # Zero}, Zero)

\* FewShotLoader._weighted_manhattan: the values it can return.
weighted_manhattan(v1, v2, weights) ==
    AccumulationsOf([key \in DOMAIN weights \cup DOMAIN v1 \cup DOMAIN v2 |->
                        Term(v1, v2, weights, key)])

\* The weight table of _distance_fsm
FsmWeights ==
    [num_states |-> Halves(4), num_transitions |-> Halves(3),
     num_final_states |-> Halves(5), num_intermediate_states |-> Halves(4),
     num_error_states |-> Halves(10), max_out_degree |-> Halves(4),
     has_cycle |-> Halves(6), has_branching |-> Halves(6),
     is_linear_chain |-> Halves(6), max_depth |-> Halves(8),
     num_paths_to_error |-> Halves(12), error_is_terminal |-> Halves(8),
     has_creation_event |-> Halves(4), has_boolean_returning |-> Halves(6),
     has_condition_in_pointcut |-> Halves(6),
     pattern_precedence_like |-> Halves(10), pattern_response_like |-> Halves(10)]

\* The weight table of _distance_event
EventWeights ==
    [num_events |-> Halves(4), num_constraints |-> Halves(6),
     total_event_parameters |-> Halves(3), max_event_parameters |-> Halves(4),
     has_returning_event |-> Halves(5), has_boolean_returning |-> Halves(6),
     has_condition_in_pointcut |-> Halves(5), has_static_method |-> Halves(4),
     has_constructor_event |-> Halves(4), multi_event_constraints |-> Halves(8),
     uses_equality |-> Halves(4), uses_inequality |-> Halves(4),
     uses_comparison |-> Halves(4), uses_not |-> Halves(2), uses_and |-> D0_8,
     uses_or |-> D0_8, uses_before |-> Halves(4), uses_after |-> Halves(4),
     compares_to_null |-> Halves(4), compares_to_constant |-> Halves(4),
     compares_two_idents |-> Halves(3), domain_numeric |-> Halves(6),
     domain_collection |-> Halves(6), domain_network |-> Halves(6),
     domain_permission |-> Halves(6), domain_io |-> Halves(5),
     domain_comparable |-> Halves(6), pattern_decode |-> Halves(3),
     pattern_parse |-> Halves(3), pattern_factory |-> D1_2,
     pattern_permission |-> Halves(3), pattern_timeout |-> Halves(3),
     pattern_port |-> Halves(3), pattern_comparable |-> Halves(3),
     has_violation_message |-> Halves(2)]

\* A table of two weights, as a caller of _weighted_manhattan may pass.
TwoWeights == [uses_and |-> D0_8, pattern_factory |-> D1_2]

WeightsOf(table) ==
    CASE table = "fsm" -> FsmWeights
      [] table = "event" -> EventWeights
      [] table = "two" -> TwoWeights

MaxVectorKeys == 2

VectorKeys == {"uses_and", "pattern_factory", "num_states", "extra"}

FeatureValues == {0, 1, 2}

Vectors ==
    UNION {[keys -> FeatureValues] :
              keys \in {K \in SUBSET VectorKeys : Cardinality(K) <= MaxVectorKeys}}

InitDistance ==
    /\ pc = "start"
    /\ text \in [table : {"fsm", "event", "two"}, v1 : Vectors, v2 : Vectors]
    /\ arg = 0
    /\ out = NoOut

\* distance(v1, v2, W)
CallDistance ==
    /\ pc = "start"
    /\ pc' = "forward"
    /\ \E d \in weighted_manhattan(text.v1, text.v2, WeightsOf(text.table)) :
          out' = [fn |-> "FewShotLoader._weighted_manhattan", forward |-> d]
    /\ UNCHANGED <<text, arg>>

\* then distance(v2, v1, W)
CallDistanceSwapped ==
    /\ pc = "forward"
    /\ pc' = "done"
    /\ \E d \in weighted_manhattan(text.v2, text.v1, WeightsOf(text.table)) :
          out' = [fn |-> out.fn, forward |-> out.forward, backward |-> d]
    /\ UNCHANGED <<text, arg>>

NextDistance == CallDistance \/ CallDistanceSwapped

SpecDistance == InitDistance /\ [][NextDistance]_vars

\* C15: the distance of a vector to itself is 0, and the distance from v1 to
\* v2 is the distance from v2 to v1.
C15_ReflexiveAndSymmetric ==
    /\ (pc = "forward" /\ text.v1 = text.v2) => out.forward = Zero
    /\ pc = "done" => out.forward = out.backward

\* The distance of a vector to itself is 0, and under the weights of
\* _distance_fsm, all multiples of 0.5, the distance is symmetric.
ReflexiveAndSymmetricUnderFsmWeights ==
    /\ (pc = "forward" /\ text.v1 = text.v2) => out.forward = Zero
    /\ (pc = "done" /\ text.table = "fsm") => out.forward = out.backward


\* The sum, in the reals, of weight times difference over the keys: the sum
\* of the terms that are not zero.
ExactTerm(v1, v2, weights, key) ==
    ExactTimes(WeightOf(weights, key), Abs(Get(v1, key) - Get(v2, key)))

RECURSIVE ExactSumOver(_, _)
ExactSumFrom(terms, keys, key) ==
    ExactAdd(terms[key], ExactSumOver(terms, keys \ {key}))

ExactSumOver(terms, keys) ==
    IF keys = {} THEN Zero
    ELSE ExactSumFrom(terms, keys, CHOOSE key \in keys : TRUE)

ExactSumOf(terms) ==
    ExactSumOver(terms, {key \in DOMAIN terms : terms[key] # Zero})

ExactSum(v1, v2, weights) ==
    ExactSumOf([key \in DOMAIN weights \cup DOMAIN v1 \cup DOMAIN v2 |->
                   ExactTerm(v1, v2, weights, key)])

Agree(v1, v2) ==
    \A key \in DOMAIN v1 \cup DOMAIN v2 : Get(v1, key) = Get(v2, key)

\* C16: the distance is the sum, over the keys of the table and of both
\* vectors, of weight (1.0 for a key the table lacks) times the absolute
\* difference of the two values (0 for a key a vector lacks), as a float; and
\* it is zero exactly when the vectors agree on every key.
C16_DistanceIsWeightedSum ==
    pc = "forward" =>
        /\ out.forward =
               RoundNearestEven(ExactSum(text.v1, text.v2, WeightsOf(text.table)))
        /\ out.forward = Zero <=> Agree(text.v1, text.v2)

\* Under every table the distance is zero exactly when the vectors agree,
\* and under the weights of _distance_fsm it is the sum in the reals.
DistanceIsWeightedSumUnderFsmWeights ==
    pc = "forward" =>
        /\ out.forward = Zero <=> Agree(text.v1, text.v2)
        /\ text.table = "fsm" => out.forward = ExactSum(text.v1, text.v2, FsmWeights)

----------------------------------------------------------------------------
(* 5: structural selection *)

\* The loop of _weighted_manhattan when the keys whose terms are not 0.0
\* come in the order given: within one process the set of keys is the same
\* for every pair of vectors of one formalism, and so is its order.
RECURSIVE AccumulateIn(_, _, _, _)
AccumulateIn(terms, order, i, distance) ==
    IF i > Len(order) THEN distance
    ELSE AccumulateIn(terms, order, i + 1,
                      IF order[i] \in DOMAIN terms THEN fadd(distance, terms[order[i]])
                      ELSE distance)

weighted_manhattan_in(v1, v2, weights, order) ==
    AccumulateIn([key \in DOMAIN weights \cup DOMAIN v1 \cup DOMAIN v2 |->
                     Term(v1, v2, weights, key)], order, 1, Zero)

\* FewShotLoader._distance_by_type, for the formalisms fsm and event
distance_by_type(v1, v2, ir_type, order) ==
    weighted_manhattan_in(v1, v2, WeightsOf(ir_type), order)

\* The file names of a directory, as sorted() orders them.
FileNames == <<"a.json", "b.json">>

NameIndex(name) == CHOOSE i \in 1..Len(FileNames) : FileNames[i] = name

FloatLess(x, y) == x.hi < y.hi \/ (x.hi = y.hi /\ x.lo < y.lo)

\* (x["distance"], x["path"].name) < (y["distance"], y["path"].name)
KeyLess(x, y) ==
    \/ FloatLess(x.distance, y.distance)
    \/ x.distance = y.distance /\ NameIndex(x.path) < NameIndex(y.path)

\* scored.sort(key=...): a stable sort, by insertion after the last item
\* that is not greater.
RECURSIVE InsertScored(_, _)
InsertScored(sorted, item) ==
    IF sorted = <<>> THEN <<item>>
    ELSE IF KeyLess(item, sorted[Len(sorted)])
    THEN Append(InsertScored(SubSeq(sorted, 1, Len(sorted) - 1), item),
                sorted[Len(sorted)])
    ELSE Append(sorted, item)

RECURSIVE SortScored(_, _, _)
SortScored(scored, i, sorted) ==
    IF i > Len(scored) THEN sorted
    ELSE SortScored(scored, i + 1, InsertScored(sorted, scored[i]))

\* The for loop of _select_structural: a file holds the type of its IR and
\* the features of its IR that are not 0, as _extract_vector_by_type gives
\* them.
RECURSIVE ScoreFiles(_, _, _, _, _, _)
ScoreFiles(files, i, base_vector, ir_type, order, scored) ==
    IF i > Len(files) THEN scored
    ELSE ScoreFiles(files, i + 1, base_vector, ir_type, order,
                    IF Lower(files[i].type) # ir_type THEN scored
                    ELSE Append(scored,
                                [path |-> files[i].name,
                                 distance |-> distance_by_type(files[i].vector,
                                                               base_vector,
                                                               ir_type, order)]))

FirstK(scored, k) == SubSeq(scored, 1, IF k < Len(scored) THEN k ELSE Len(scored))

\* FewShotLoader._select_structural with return_scores
select_structural(files, k, base_vector, ir_type, order) ==
    FirstK(SortScored(ScoreFiles(files, 1, base_vector, ir_type, order, <<>>),
                      1, <<>>), k)

MaxCandidates == 2

EventVectors ==
    {<< >>,
     [has_violation_message |-> 1, uses_and |-> 2, pattern_factory |-> 1],
     [has_violation_message |-> 1, uses_or |-> 2, pattern_factory |-> 1]}

FsmVectors ==
    {<< >>,
     [num_transitions |-> 2],
     [has_cycle |-> 1]}

VectorsOf(ir_type) == IF ir_type = "fsm" THEN FsmVectors ELSE EventVectors

\* The keys on which the vectors of a formalism differ.
LiveKeys(ir_type) ==
    IF ir_type = "fsm" THEN {"num_transitions", "has_cycle"}
    ELSE {"has_violation_message", "uses_and", "uses_or", "pattern_factory"}

Orders(keys) ==
    {order \in [1..Cardinality(keys) -> keys] :
        \A i, j \in DOMAIN order : i # j => order[i] # order[j]}

TemplateFiles ==
    UNION {[name : {FileNames[i] : i \in DOMAIN FileNames}, type : {type},
            vector : VectorsOf(Lower(type))] : type \in {"fsm", "event", "FSM"}}

Pools ==
    {files \in UNION {[1..n -> TemplateFiles] : n \in 0..MaxCandidates} :
        \A i, j \in DOMAIN files :
            i < j => NameIndex(files[i].name) < NameIndex(files[j].name)}

InitSelect ==
    /\ pc = "start"
    /\ \E ir_type \in {"fsm", "event"} :
          text \in [ir_type : {ir_type}, k : {1, 3}, files : Pools,
                    base_vector : VectorsOf(ir_type),
                    order : Orders(LiveKeys(ir_type))]
    /\ arg = 0
    /\ out = NoOut

\* One run of the selection, in a process whose sets iterate in the order
\* given: the candidates scored and sorted, and the result.
SelectedIn(order) ==
    [scored |-> select_structural(text.files, Len(text.files), text.base_vector,
                                  text.ir_type, order),
     top |-> select_structural(text.files, text.k, text.base_vector,
                               text.ir_type, order)]

CallSelectStructural ==
    /\ pc = "start"
    /\ pc' = "selected"
    /\ out' = [fn |-> "FewShotLoader._select_structural",
               first |-> SelectedIn(text.order)]
    /\ UNCHANGED <<text, arg>>

\* The same call again in the same process.
CallSelectStructuralAgain ==
    /\ pc = "selected"
    /\ pc' = "again"
    /\ out' = [fn |-> out.fn, first |-> out.first, second |-> SelectedIn(text.order)]
    /\ UNCHANGED <<text, arg>>

\* The same call on the same inputs in another process, whose sets iterate
\* in an order of their own.
CallSelectStructuralInNewProcess ==
    /\ pc = "selected"
    /\ pc' = "rerun"
    /\ \E order \in Orders(LiveKeys(text.ir_type)) :
          out' = [fn |-> out.fn, first |-> out.first, second |-> SelectedIn(order)]
    /\ UNCHANGED <<text, arg>>

NextSelect ==
    \/ CallSelectStructural
    \/ CallSelectStructuralAgain
    \/ CallSelectStructuralInNewProcess

SpecSelect == InitSelect /\ [][NextSelect]_vars

\* The names of the candidates of the requested formalism.
SameTypeNames ==
    {text.files[i].name :
        i \in {j \in DOMAIN text.files : Lower(text.files[j].type) = text.ir_type}}

Paths(scored) == {scored[i].path : i \in DOMAIN scored}

\* A run scores the candidates of the requested formalism and no other, and
\* returns, in ascending order of (distance, name), as many as k of them or
\* all, none left out coming before one returned.
FirstKInOrder(run) ==
    /\ Paths(run.scored) = SameTypeNames
    /\ Len(run.scored) = Cardinality(SameTypeNames)
    /\ \A i \in DOMAIN run.top : \E j \in DOMAIN run.scored : run.top[i] = run.scored[j]
    /\ \A i, j \in DOMAIN run.top : i < j => KeyLess(run.top[i], run.top[j])
    /\ Len(run.top) = IF text.k < Len(run.scored) THEN text.k ELSE Len(run.scored)
    /\ \A j \in DOMAIN run.scored :
          (\A i \in DOMAIN run.top : run.top[i] # run.scored[j]) =>
              \A i \in DOMAIN run.top : KeyLess(run.top[i], run.scored[j])

\* C17: structural selection returns the first k candidates of the requested
\* formalism in ascending order of (distance, file name), and two calls on
\* the same inputs return the same ordered result.
C17_StructuralSelection ==
    /\ pc = "selected" => FirstKInOrder(out.first)
    /\ pc \in {"again", "rerun"} =>
          /\ FirstKInOrder(out.second)
          /\ out.first.top = out.second.top

\* Every run returns the first k candidates of the requested formalism in
\* ascending order of (distance, file name); two runs return the same result
\* in one process, and in two processes under the weights of _distance_fsm.
StructuralSelectionInOneProcess ==
    /\ pc = "selected" => FirstKInOrder(out.first)
    /\ pc \in {"again", "rerun"} => FirstKInOrder(out.second)
    /\ (pc = "again" \/ (pc = "rerun" /\ text.ir_type = "fsm"))
           => out.first.top = out.second.top

----------------------------------------------------------------------------
(* 5: random selection *)

\* A generator seeded with the loader's seed yields one fixed stream of
\* values; arg.stream is the part of the stream drawn so far, and _randbelow(n)
\* at a position of the stream is the value there modulo n.
DrawValues == 0..5

\* The values random.Random.sample needs from position p on, for k draws.
Extensions(stream, p, k) ==
    IF p + k <= Len(stream) THEN {<< >>}
    ELSE [1..(p + k - Len(stream)) -> DrawValues]

\* random.sample(population, k), for a population of at most 21: k times,
\* take the item at a drawn position of the pool and move the pool's last
\* item there.
RECURSIVE random_sample(_, _, _, _, _, _)
random_sample_step(pool, k, stream, p, i, result, j) ==
    random_sample([pool EXCEPT ![j + 1] = pool[Len(pool) - i]], k, stream, p, i + 1,
                  Append(result, pool[j + 1]))

random_sample(pool, k, stream, p, i, result) ==
    IF i >= k THEN result
    ELSE random_sample_step(pool, k, stream, p, i, result,
                            stream[p + i + 1] % (Len(pool) - i))

\* FewShotLoader.by_category
RECURSIVE by_category(_, _)
by_category(cache, category) ==
    IF cache = <<>> THEN <<>>
    ELSE IF Head(cache).category = category
    THEN <<Head(cache)>> \o by_category(Tail(cache), category)
    ELSE by_category(Tail(cache), category)

\* pool = self._cache; if category: pool = self.by_category(category)
SamplePool(cache, category) ==
    IF category # None THEN by_category(cache, category[1]) ELSE cache

\* FewShotLoader.sample of fewshot_loader.py, with rng = random.Random(self.seed)
\* at the start of the stream.
sample(cache, category, k, stream) ==
    IF SamplePool(cache, category) = <<>> THEN [raised |-> "ValueError"]
    ELSE IF k >= Len(SamplePool(cache, category))
    THEN [raised |-> "", value |-> SamplePool(cache, category)]
    ELSE [raised |-> "",
          value |-> random_sample(SamplePool(cache, category), k, stream, 0, 0, <<>>)]

\* FewShotLoader._select_random, with the module random, which __init__ seeded,
\* at position p of the stream.
select_random(files, k, stream, p) ==
    IF k >= Len(files) THEN [raised |-> "", value |-> files]
    ELSE [raised |-> "", value |-> random_sample(files, k, stream, p, 0, <<>>)]

MaxPool == 3

ExampleNames == <<"a.json", "b.json", "c.json">>

Caches ==
    UNION {{[i \in 1..n |-> [source |-> ExampleNames[i], category |-> categories[i]]] :
               categories \in [1..n -> {"EVENT", "FSM"}]} : n \in 1..MaxPool}

FileLists == {[i \in 1..n |-> ExampleNames[i]] : n \in 0..MaxPool}

InitSample ==
    /\ pc = "start"
    /\ \/ text \in [loader : {"sample"}, cache : Caches,
                    category : {None, Some("EVENT")}, k : {1, 2}]
       \/ text \in [loader : {"select_random"}, files : FileLists, k : {1, 2}]
    /\ arg = [stream |-> << >>, pos |-> 0]
    /\ out = NoOut

Results(o) == IF o.fn = "none" THEN << >> ELSE o.results

AfterCall == IF pc = "start" THEN "once" ELSE "twice"

\* loader.sample(category, k), a first and a second time
CallSample ==
    /\ pc \in {"start", "once"}
    /\ text.loader = "sample"
    /\ pc' = AfterCall
    /\ \E ext \in Extensions(arg.stream, 0,
                             IF text.k < Len(SamplePool(text.cache, text.category))
                             THEN text.k ELSE 0) :
          /\ arg' = [arg EXCEPT !.stream = @ \o ext]
          /\ out' = [fn |-> "FewShotLoader.sample",
                     results |-> Append(Results(out),
                                        sample(text.cache, text.category, text.k,
                                               arg.stream \o ext))]
    /\ UNCHANGED text

\* loader._select_random(files, k), a first and a second time
CallSelectRandom ==
    /\ pc \in {"start", "once"}
    /\ text.loader = "select_random"
    /\ pc' = AfterCall
    /\ \E ext \in Extensions(arg.stream, arg.pos,
                             IF text.k < Len(text.files) THEN text.k ELSE 0) :
          /\ arg' = [stream |-> arg.stream \o ext,
                     pos |-> arg.pos + IF text.k < Len(text.files) THEN text.k ELSE 0]
          /\ out' = [fn |-> "FewShotLoader._select_random",
                     results |-> Append(Results(out),
                                        select_random(text.files, text.k,
                                                      arg.stream \o ext, arg.pos))]
    /\ UNCHANGED text

NextSample == CallSample \/ CallSelectRandom

SpecSample == InitSample /\ [][NextSample]_vars

NoRepeat(result) ==
    result.raised = "" =>
        \A i, j \in DOMAIN result.value : i # j => result.value[i] # result.value[j]

\* C18: two successive calls on one loader with the same arguments return
\* the same examples in the same order, and no result holds an example twice.
C18_RandomSelectionDeterministic ==
    /\ \A i \in DOMAIN Results(out) : NoRepeat(Results(out)[i])
    /\ pc = "twice" => out.results[1] = out.results[2]

\* No result holds an example twice, and two successive calls of sample of
\* fewshot_loader.py return the same examples in the same order.
SampleDeterministic ==
    /\ \A i \in DOMAIN Results(out) : NoRepeat(Results(out)[i])
    /\ (pc = "twice" /\ text.loader = "sample") => out.results[1] = out.results[2]

----------------------------------------------------------------------------
(* 6: the comparison of two IR records *)

\* d.get(key), None for a key the dict lacks
DictGet(d, key) == IF key \in DOMAIN d THEN Some(d[key]) ELSE None

\* d.get(key, [])
ListGet(d, key) == IF key \in DOMAIN d THEN d[key] ELSE << >>

\* IRDiff()
IRDiff == [errors |-> << >>, warnings |-> << >>]

\* IRDiff.is_equal
is_equal(diff) == Len(diff.errors) = 0

\* IRDiff.add_error
add_error(diff, msg) == [diff EXCEPT !.errors = Append(@, msg)]

\* IRDiff.add_warning, and a variant that files the message as an error
add_warning_as_error(diff, msg) == [diff EXCEPT !.errors = Append(@, msg)]

add_warning(diff, msg) == [diff EXCEPT !.warnings = Append(@, msg)]

\* {(e["name"], e["timing"]) for e in events}
PairSet(events) == {<<events[i].name, events[i].timing>> : i \in DOMAIN events}

MissingEvent(pair) == [msg |-> "Missing event", name |-> pair[1], timing |-> pair[2]]

ExtraEvent(pair) == [msg |-> "Extra event", name |-> pair[1], timing |-> pair[2]]

\* for name, timing in missing: diff.add_error(...), in the order given
RECURSIVE AddMissing(_, _, _)
AddMissing(diff, order, i) ==
    IF i > Len(order) THEN diff
    ELSE AddMissing(add_error(diff, MissingEvent(order[i])), order, i + 1)

\* for name, timing in extra: diff.add_warning(...), in the order given
RECURSIVE AddExtra(_, _, _)
AddExtra(diff, order, i) ==
    IF i > Len(order) THEN diff
    ELSE AddExtra(add_warning(diff, ExtraEvent(order[i])), order, i + 1)

\* _compare_events: the diffs it can leave, one for each order in which the
\* two sets iterate.  A variant takes every reference pair as missing.
compare_events_all_missing(ref_events, gen_events, diff) ==
    {AddExtra(AddMissing(diff, missing, 1), extra, 1) :
        missing \in Orders(PairSet(ref_events)),
        extra \in Orders(PairSet(gen_events) \ PairSet(ref_events))}

compare_events(ref_events, gen_events, diff) ==
    {AddExtra(AddMissing(diff, missing, 1), extra, 1) :
        missing \in Orders(PairSet(ref_events) \ PairSet(gen_events)),
        extra \in Orders(PairSet(gen_events) \ PairSet(ref_events))}

FieldMismatch(msg, ref_ir, gen_ir, key) ==
    [msg |-> msg, expected |-> DictGet(ref_ir, key), got |-> DictGet(gen_ir, key)]

\* _compare_event
compare_event(ref_ir, gen_ir, diff) ==
    {IF DictGet(ref_ir, "guard") # DictGet(gen_ir, "guard")
     THEN add_warning(d, FieldMismatch("Guard mismatch", ref_ir, gen_ir, "guard"))
     ELSE d :
        d \in compare_events(ListGet(ref_ir, "events"), ListGet(gen_ir, "events"), diff)}

\* _compare_ere
compare_ere(ref_ir, gen_ir, diff) ==
    {IF DictGet(ref_ir, "pattern") # DictGet(gen_ir, "pattern")
     THEN add_error(d, FieldMismatch("ERE pattern mismatch", ref_ir, gen_ir, "pattern"))
     ELSE d :
        d \in compare_events(ListGet(ref_ir, "events"), ListGet(gen_ir, "events"), diff)}

\* _compare_ltl
compare_ltl(ref_ir, gen_ir, diff) ==
    {IF DictGet(ref_ir, "formula") # DictGet(gen_ir, "formula")
     THEN add_error(d, FieldMismatch("LTL formula mismatch", ref_ir, gen_ir, "formula"))
     ELSE d :
        d \in compare_events(ListGet(ref_ir, "events"), ListGet(gen_ir, "events"), diff)}

StateSet(states) == {states[i] : i \in DOMAIN states}

RECURSIVE AddMissingStates(_, _, _)
AddMissingStates(diff, order, i) ==
    IF i > Len(order) THEN diff
    ELSE AddMissingStates(add_error(diff, [msg |-> "Missing FSM state", state |-> order[i]]),
                          order, i + 1)

RECURSIVE AddExtraStates(_, _, _)
AddExtraStates(diff, order, i) ==
    IF i > Len(order) THEN diff
    ELSE AddExtraStates(add_warning(diff, [msg |-> "Extra FSM state", state |-> order[i]]),
                        order, i + 1)

\* _compare_fsm
compare_fsm(ref_ir, gen_ir, diff) ==
    {AddExtraStates(AddMissingStates(diff, missing, 1), extra, 1) :
        missing \in Orders(StateSet(ListGet(ref_ir, "states"))
                               \ StateSet(ListGet(gen_ir, "states"))),
        extra \in Orders(StateSet(ListGet(gen_ir, "states"))
                             \ StateSet(ListGet(ref_ir, "states")))}

\* compare_ir, step 3: the dispatch on the type of the reference IR
compare_by_type(ref_ir, gen_ir, diff) ==
    CASE DictGet(ref_ir, "type") = Some("event") -> compare_event(ref_ir, gen_ir, diff)
      [] DictGet(ref_ir, "type") = Some("ere") -> compare_ere(ref_ir, gen_ir, diff)
      [] DictGet(ref_ir, "type") = Some("fsm") -> compare_fsm(ref_ir, gen_ir, diff)
      [] DictGet(ref_ir, "type") = Some("ltl") -> compare_ltl(ref_ir, gen_ir, diff)
      [] OTHER -> {add_warning(diff, [msg |-> "Unknown IR type",
                                      type |-> DictGet(ref_ir, "type")])}

\* compare_ir, steps 1 and 2
compare_category(reference, generated, diff) ==
    IF DictGet(reference, "category") # DictGet(generated, "category")
    THEN add_error(diff, FieldMismatch("Category mismatch", reference, generated,
                                       "category"))
    ELSE diff

compare_type(ref_ir, gen_ir, diff) ==
    IF DictGet(ref_ir, "type") # DictGet(gen_ir, "type")
    THEN add_error(diff, FieldMismatch("IR type mismatch", ref_ir, gen_ir, "type"))
    ELSE diff

\* compare_ir: the diffs it can return
compare_ir(reference, generated) ==
    compare_by_type(reference.ir, generated.ir,
                    compare_type(reference.ir, generated.ir,
                                 compare_category(reference, generated, IRDiff)))

MaxEvents == 2

EventPairs ==
    {[name |-> "open", timing |-> "before"], [name |-> "open", timing |-> "after"],
     [name |-> "close", timing |-> "before"]}

EventLists == UNION {[1..n -> EventPairs] : n \in 0..MaxEvents}

Irs ==
    [type : {"event"}, events : EventLists, guard : {"x", "y"}]
        \cup [type : {"ere"}, events : EventLists, pattern : {"x", "y"}]
        \cup [type : {"ltl"}, events : EventLists, formula : {"x", "y"}]
        \cup [type : {"fsm"}, states : {<<"s0">>, <<"s0", "s1">>, <<"s1", "s2">>}]
        \cup [type : {"other"}]
        \cup {[events |-> << >>]}

IrRecords == [category : {"EVENT", "ERE"}, ir : Irs]

InitCompare ==
    /\ pc = "start"
    /\ text \in [reference : IrRecords, generated : IrRecords]
    /\ arg = 0
    /\ out = NoOut

CallCompareIr ==
    /\ pc = "start"
    /\ pc' = "done"
    /\ \E diff \in compare_ir(text.reference, text.generated) :
          out' = [fn |-> "compare_ir", errors |-> diff.errors,
                  warnings |-> diff.warnings, is_equal |-> is_equal(diff)]
    /\ UNCHANGED <<text, arg>>

NextCompare == CallCompareIr

SpecCompare == InitCompare /\ [][NextCompare]_vars

\* C19: compare_ir(r, r) reports is_equal with no error, for every IR
\* record r; and is_equal is true exactly when the list of errors is empty.
C19_CompareIrReflexive ==
    pc = "done" =>
        /\ out.is_equal <=> out.errors = << >>
        /\ text.reference = text.generated => (out.is_equal /\ out.errors = << >>)

C19_Witness ==
    /\ pc = "done"
    /\ text.reference = text.generated
    /\ DictGet(text.reference.ir, "type") = Some("ere")
    /\ Len(ListGet(text.reference.ir, "events")) = MaxEvents
    /\ out.is_equal

EventTypes == {"event", "ere", "ltl"}

ComparesEvents == pc = "done" /\ DictGet(text.reference.ir, "type") \in {Some(t) : t \in EventTypes}

MissingPairs ==
    PairSet(ListGet(text.reference.ir, "events"))
        \ PairSet(ListGet(text.generated.ir, "events"))

ExtraPairs ==
    PairSet(ListGet(text.generated.ir, "events"))
        \ PairSet(ListGet(text.reference.ir, "events"))

Occurrences(seq, x) == Cardinality({i \in DOMAIN seq : seq[i] = x})

\* The two records differ in nothing but events the generated one adds.
DiffersByExtraOnly ==
    /\ MissingPairs = {}
    /\ text.reference.category = text.generated.category
    /\ \A key \in {"type", "guard", "pattern", "formula"} :
          DictGet(text.reference.ir, key) = DictGet(text.generated.ir, key)

\* C20: for event, ere and ltl IRs, each (name, timing) pair of the reference
\* that the generated events lack gives one Missing event error and a result
\* that is not equal; a pair only the generated events have gives one warning
\* and no error, and alone it leaves the result equal.
C20_MissingAndExtraEvents ==
    ComparesEvents =>
        /\ \A pair \in MissingPairs : Occurrences(out.errors, MissingEvent(pair)) = 1
        /\ MissingPairs # {} => ~out.is_equal
        /\ \A pair \in ExtraPairs :
              /\ Occurrences(out.warnings, ExtraEvent(pair)) = 1
              /\ \A i \in DOMAIN out.errors :
                    "name" \in DOMAIN out.errors[i] =>
                        <<out.errors[i].name, out.errors[i].timing>> # pair
        /\ Cardinality({i \in DOMAIN out.errors : out.errors[i].msg = "Missing event"})
               = Cardinality(MissingPairs)
        /\ DiffersByExtraOnly => out.is_equal

C20_Witness ==
    /\ ComparesEvents
    /\ Cardinality(MissingPairs) = 2
    /\ ExtraPairs # {}
    /\ ~out.is_equal
    /\ Len(out.warnings) >= 1

----------------------------------------------------------------------------
(* 4.1: the position a balanced scanner returns *)

\* The index of the closing delimiter that ends the content the scanner
\* returned for the opening delimiter at arg.
CloseIndex == arg + 1 + Len(out.content[1])

\* C21: on success the balanced scanner returns, with the content, the
\* position just past the matching closing delimiter, the index of the
\* closing delimiter plus one, in every variant of the scanner.
C21_EndposJustPastClose ==
    (pc = "done" /\ out.endpos # None) => out.endpos = Some(CloseIndex + 1)

\* ere.extract_balanced returns i + 1; the scanners of fsm.py and event.py
\* return i, the index of the closing delimiter itself.
EreEndposJustPastClose ==
    (pc = "done" /\ out.endpos # None)
        => /\ At(text, CloseIndex) = out.close
           /\ out.endpos = Some(IF out.fn = "ere.extract_balanced"
                                THEN CloseIndex + 1 ELSE CloseIndex)

----------------------------------------------------------------------------
(* 6: an opening delimiter without a matching close *)

\* The delimiter op at position o of s has no matching cl after it.
Unclosed(s, o, op, cl) ==
    /\ At(s, o) = op
    /\ ~\E j \in (o + 1)..(Len(s) - 1) :
            At(s, j) = cl /\ Balanced(Slice(s, o + 1, j), op, cl)

\* The text has a header NAME( whose parenthesis is never closed.
UnclosedHeader(s) ==
    header_search(s).found /\ Unclosed(s, header_search(s).open, "(", ")")

\* C22: when the opening delimiter has no matching close the scanner returns
\* its no-match sentinel and the caller drops the affected fragment only: the
\* signature extractor still returns the record of the header, its name with
\* no parameters.
C22_UnclosedDropsFragmentOnly ==
    ( /\ pc = "done"
      /\ out.fn \in {"fsm.extract_signature", "ere.extract_signature"}
      /\ UnclosedHeader(text) )
        => out.result = [name |-> header_search(text).name, parameters |-> <<>>]

\* ere.extract_signature keeps the name of a header whose parenthesis is never
\* closed; fsm.extract_signature returns the record it returns without a
\* header.
EreSignatureKeepsNameOfUnclosedHeader ==
    (pc = "done" /\ UnclosedHeader(text))
        => /\ out.fn = "ere.extract_signature"
                => out.result = [name |-> header_search(text).name,
                                 parameters |-> <<>>]
           /\ out.fn = "fsm.extract_signature"
                => out.result = [parameters |-> <<>>]

\* The scanners themselves return the sentinel at such a delimiter: no
\* position, and no content (the empty content from event.py's scanner).
ScannersReturnSentinelWhenUnclosed ==
    (pc = "done" /\ Unclosed(text, arg, out.open, out.close))
        => /\ out.endpos = None
           /\ out.content = IF out.fn = "event._extract_balanced_block"
                            THEN Some(<<>>) ELSE None

----------------------------------------------------------------------------
(* 4.6: the states of a parsed FSM block *)

Members(seq) == {seq[k] : k \in 1..Len(seq)}

NoDuplicates(seq) == \A i, j \in 1..Len(seq) : seq[i] = seq[j] => i = j

\* C23: after parsing any FSM block the states hold no duplicate and are
\* closed under the transitions: the source and the target of every
\* transition are among the states, a target without a block of its own
\* included.
C23_StatesClosedUnderTransitions ==
    (pc = "done" /\ out.fn \in {"comparator._parse_fsm_block", "fsm.extract_fsm_block"})
        => /\ NoDuplicates(out.states)
           /\ \A k \in 1..Len(out.transitions) :
                  {out.transitions[k].from, out.transitions[k].to}
                      \subseteq Members(out.states)

\* A parsed text that declares one state twice and has a transition whose
\* target has no block.
C23_Witness ==
    /\ pc = "done"
    /\ out.fn \in {"comparator._parse_fsm_block", "fsm.extract_fsm_block"}
    /\ ~NoDuplicates(DeclaredStates(text))
    /\ \E k \in 1..Len(out.transitions) :
           out.transitions[k].to \notin Members(DeclaredStates(text))

----------------------------------------------------------------------------
(* 4.6: the events of an ERE IR *)

PairOf(e) == <<e.name, e.timing>>

NoDuplicatePairs(events) ==
    \A i, j \in 1..Len(events) : PairOf(events[i]) = PairOf(events[j]) => i = j

\* C24: the event list of an ERE IR holds no two events with the same
\* (name, timing) pair; of a pair declared more than once the extractor keeps
\* the first declaration.
C24_EreEventsDeduplicated ==
    (pc = "done" /\ out.fn \in {"ere.extract_events", "comparator._extract_events"})
        => NoDuplicatePairs(out.events)

\* The comparator's extractor removes the repeated pairs; ere.extract_events,
\* whose list extract_ere_ir stores as it is, has no such step.
ComparatorEventsDeduplicated ==
    (pc = "done" /\ out.fn = "comparator._extract_events")
        => NoDuplicatePairs(out.events)

----------------------------------------------------------------------------
(* 4.9: the feature vector of an FSM record *)

\* The names of the states and of the events of the records of the model.
StateNames == {"a", "b", "c", "error", "Violation"}

EventNames == {"e", "onCreate"}

\* "error" in name.lower() or "violation" in name.lower()
IsErrorName(name) == name \in {"error", "Violation"}

\* "create" in name.lower()
IsCreateName(name) == name \in {"onCreate"}

\* "condition(" in pointcut_raw
HasCondition(raw) == raw \in {"condition(x)"}

\* {}
EmptyDict == <<>>

\* d.get(key, default)
GetOr(d, key, default) == IF key \in DOMAIN d THEN d[key] ELSE default

\* [x for x in xs if keep[x's index]]
RECURSIVE Filter(_, _, _)
Filter(xs, keep, i) ==
    IF i > Len(xs) THEN <<>>
    ELSE (IF keep[i] THEN <<xs[i]>> ELSE <<>>) \o Filter(xs, keep, i + 1)

NamesOf(states) == [k \in 1..Len(states) |-> states[k].name]

\* The three lists of the first loop over the states: the name of the last
\* state flagged initial, the names of the final states and of the states
\* whose name reads as an error.
InitialOf(states, flagged) ==
    IF flagged = {} THEN None
    ELSE Some(states[CHOOSE k \in flagged : \A j \in flagged : j <= k].name)

initial_state_of(states) ==
    InitialOf(states, {k \in 1..Len(states) : GetOr(states[k], "initial", FALSE)})

final_states_of(states) ==
    Filter(NamesOf(states), [k \in 1..Len(states) |-> GetOr(states[k], "final", FALSE)], 1)

error_states_of(states) ==
    Filter(NamesOf(states), [k \in 1..Len(states) |-> IsErrorName(states[k].name)], 1)

intermediate_of(states, initial_state, final_states, error_states) ==
    Filter(NamesOf(states),
           [k \in 1..Len(states) |->
               /\ states[k].name \notin Members(final_states)
               /\ states[k].name \notin Members(error_states)
               /\ Some(states[k].name) # initial_state], 1)

\* t.get("source"), t.get("target"): None without the key.
source_of(t) == DictGet(t, "source")

target_of(t) == DictGet(t, "target")

\* adjacency.get(node, []): the targets of the transitions out of node, in the
\* order of the transitions.
Adjacent(transitions, node) ==
    Filter([k \in 1..Len(transitions) |-> target_of(transitions[k])],
           [k \in 1..Len(transitions) |-> source_of(transitions[k]) = node], 1)

\* has_cycle: set by a transition whose source equals its target.
has_cycle_of(transitions) ==
    IF \E k \in 1..Len(transitions) : source_of(transitions[k]) = target_of(transitions[k])
    THEN 1 ELSE 0

MaxOf(S) == IF S = {} THEN 0 ELSE CHOOSE x \in S : \A y \in S : y <= x

max_out_degree_of(transitions) ==
    MaxOf({Len(Adjacent(transitions, source_of(transitions[k]))) :
              k \in 1..Len(transitions)})

\* The while loop over the queue: the depth of every entry popped counts,
\* whether its node was visited before or not.
RECURSIVE bfs_loop(_, _, _, _)
bfs_visit(transitions, rest, visited, max_depth, head, next) ==
    IF head.node \in visited THEN bfs_loop(transitions, rest, visited, max_depth)
    ELSE bfs_loop(transitions,
                  rest \o [k \in 1..Len(next) |->
                              [node |-> next[k], depth |-> head.depth + 1]],
                  visited \cup {head.node}, max_depth)

bfs_loop(transitions, queue, visited, max_depth) ==
    IF Len(queue) = 0 THEN max_depth
    ELSE bfs_visit(transitions, Tail(queue), visited,
                   Max(max_depth, queue[1].depth), queue[1],
                   Adjacent(transitions, queue[1].node))

\* `if initial_state:` is false for None and for the empty name.
Truthy(initial_state) == initial_state # None /\ initial_state # Some("")

max_depth_of(transitions, initial_state) ==
    IF Truthy(initial_state)
    THEN bfs_loop(transitions, <<[node |-> initial_state, depth |-> 0]>>, {}, 0)
    ELSE 0

\* The cap on the visited states of count_paths.
PathLimit == 20

RECURSIVE SumOf(_)
SumOf(xs) == IF Len(xs) = 0 THEN 0 ELSE xs[1] + SumOf(Tail(xs))

\* The test with which the loop of count_paths always lets a neighbour in.
unvisited_always(nxt, visited) == TRUE

\* if nxt not in visited
unvisited(nxt, visited) == nxt \notin visited

RECURSIVE count_paths(_, _, _, _, _)
count_paths_over(transitions, next, target, visited, limit) ==
    SumOf([k \in 1..Len(next) |->
              IF unvisited(next[k], visited)
              THEN count_paths(transitions, next[k], target,
                               visited \cup {next[k]}, limit)
              ELSE 0])

count_paths(transitions, start, target, visited, limit) ==
    IF start = target THEN 1
    ELSE IF Cardinality(visited) > limit THEN 0
    ELSE count_paths_over(transitions, Adjacent(transitions, start), target,
                          visited, limit)

num_paths_of(transitions, initial_state, error_states) ==
    IF Truthy(initial_state)
    THEN SumOf([k \in 1..Len(error_states) |->
                   count_paths(transitions, initial_state, Some(error_states[k]),
                               {initial_state}, PathLimit)])
    ELSE 0

error_is_terminal_of(transitions, error_states) ==
    IF \E k \in 1..Len(error_states) :
           Len(Adjacent(transitions, Some(error_states[k]))) > 0
    THEN 0 ELSE 1

Flag(b) == IF b THEN 1 ELSE 0

\* The loop over the events.
has_creation_event_of(events) ==
    Flag(\E k \in 1..Len(events) : IsCreateName(GetOr(events[k], "name", "")))

has_boolean_returning_of(events) ==
    Flag(\E k \in 1..Len(events) :
            /\ "returning" \in DOMAIN events[k]
            /\ GetOr(events[k].returning, "type", "") = "boolean")

has_condition_in_pointcut_of(events) ==
    Flag(\E k \in 1..Len(events) :
            HasCondition(GetOr(GetOr(events[k], "pointcut", EmptyDict), "raw", "")))

fsm_vector_of(states, transitions, events, initial_state, final_states, error_states, max_out_degree, max_depth, num_paths) ==
    [num_states |-> Len(states),
     num_transitions |-> Len(transitions),
     num_final_states |-> Len(final_states),
     num_error_states |-> Len(error_states),
     num_intermediate_states |->
         Len(intermediate_of(states, initial_state, final_states, error_states)),
     max_out_degree |-> max_out_degree,
     has_cycle |-> has_cycle_of(transitions),
     has_branching |-> Flag(max_out_degree > 1),
     is_linear_chain |-> Flag(max_out_degree <= 1),
     max_depth |-> max_depth,
     num_paths_to_error |-> num_paths,
     error_is_terminal |-> error_is_terminal_of(transitions, error_states),
     has_creation_event |-> has_creation_event_of(events),
     has_boolean_returning |-> has_boolean_returning_of(events),
     has_condition_in_pointcut |-> has_condition_in_pointcut_of(events),
     pattern_precedence_like |-> Flag(num_paths = 1 /\ max_depth <= 2),
     pattern_response_like |-> Flag(num_paths > 1)]

fsm_vector_from(states, transitions, events, initial_state, error_states) ==
    fsm_vector_of(states, transitions, events, initial_state,
                  final_states_of(states), error_states,
                  max_out_degree_of(transitions),
                  max_depth_of(transitions, initial_state),
                  num_paths_of(transitions, initial_state, error_states))

\* s.get(...) on an element of states that is a str raises AttributeError.
AllObjects(states) == \A k \in 1..Len(states) : states[k].json = "object"

extract_vector_fsm_of(states, transitions, events) ==
    IF ~AllObjects(states) THEN [raised |-> "AttributeError"]
    ELSE fsm_vector_from(states, transitions, events, initial_state_of(states),
                         error_states_of(states))

extract_vector_fsm_ir(ir) ==
    extract_vector_fsm_of(ListGet(ir, "states"), ListGet(ir, "transitions"),
                          ListGet(ir, "events"))

\* FewShotLoader._extract_vector_fsm
extract_vector_fsm(spec_json) ==
    extract_vector_fsm_ir(GetOr(spec_json, "ir", EmptyDict))

----------------------------------------------------------------------------
(* The FSM feature extractor applied to small records *)

MaxStates == 2
MaxTransitions == 3

GraphNames == {"a", "b", "error"}

Object(name) == [json |-> "object", name |-> name]

StateRecords ==
    UNION {{Object(n), Object(n) @@ [initial |-> TRUE], Object(n) @@ [final |-> TRUE]} :
              n \in GraphNames}

\* The state lists name every state once.
StateLists == {ss \in Strs(StateRecords, MaxStates) : NoDuplicates(NamesOf(ss))}

TransitionRecords == [source : GraphNames, target : GraphNames]

FsmEventLists ==
    { <<>>,
      <<[name |-> "e"],
        [name |-> "onCreate", returning |-> [type |-> "boolean", name |-> "r"],
         pointcut |-> [raw |-> "condition(x)"]]>> }

FsmRecords ==
    {[ir |-> [type |-> "fsm", states |-> ss, transitions |-> ts, events |-> es]] :
        ss \in StateLists, ts \in Strs(TransitionRecords, MaxTransitions),
        es \in FsmEventLists}

InitVector ==
    /\ pc = "start"
    /\ text \in FsmRecords
    /\ arg = 0
    /\ out = NoOut

CallExtractVectorFsm ==
    /\ pc = "start"
    /\ pc' = "done"
    /\ out' = [fn |-> "FewShotLoader._extract_vector_fsm",
               vector |-> extract_vector_fsm(text)]
    /\ UNCHANGED <<text, arg>>

NextVector == CallExtractVectorFsm

SpecVector == InitVector /\ [][NextVector]_vars

\* The transition graph of a record: its edges, and the nodes reachable from
\* a set of nodes in one or more steps.
Edges(transitions) ==
    {<<transitions[k].source, transitions[k].target>> : k \in 1..Len(transitions)}

Successors(E, S) == {e[2] : e \in {d \in E : d[1] \in S}}

RECURSIVE ReachFrom(_, _)
ReachFrom(E, S) ==
    IF Successors(E, S) \subseteq S THEN S ELSE ReachFrom(E, S \cup Successors(E, S))

\* A cycle: a node reachable from one of its own successors.
HasCycle(E) == \E e \in E : e[1] \in ReachFrom(E, {e[2]})

\* C25: has_cycle is 1 exactly when the transition graph contains a cycle, a
\* self-loop or a longer cycle that revisits a state, and 0 otherwise.
C25_HasCycleIffCycle ==
    pc = "done" =>
        out.vector.has_cycle = Flag(HasCycle(Edges(text.ir.transitions)))

\* What the extractor computes: has_cycle is 1 exactly when some transition
\* is a self-loop.
HasCycleIffSelfLoop ==
    pc = "done" =>
        out.vector.has_cycle
            = Flag(\E e \in Edges(text.ir.transitions) : e[1] = e[2])

\* The breadth-first distance: the largest number of layers that can be
\* peeled off from the start before no new node is reached.
RECURSIVE Eccentricity(_, _, _)
Eccentricity(E, seen, frontier) ==
    IF Successors(E, frontier) \subseteq seen THEN 0
    ELSE 1 + Eccentricity(E, seen \cup Successors(E, frontier),
                          Successors(E, frontier) \ seen)

InitialName(r) == initial_state_of(r.ir.states)

ExpectedMaxDepth(r) ==
    IF InitialName(r) = None THEN 0
    ELSE Eccentricity(Edges(r.ir.transitions), {InitialName(r)[1]}, {InitialName(r)[1]})

\* C26: max_depth is the largest shortest-path distance from the initial
\* state to a state reachable from it, in every transition graph, the cyclic
\* ones included; 0 without an initial state or without a transition out of
\* it.
C26_MaxDepthIsBfsDistance ==
    pc = "done" => out.vector.max_depth = ExpectedMaxDepth(text)

\* On the graphs in which no state can be reached along two different walks
\* from the initial state the two agree.
UniqueWalks(E, S) ==
    /\ \A n \in S : n \notin ReachFrom(E, Successors(E, {n}))
    /\ \A n \in S : Cardinality({e \in E : e[2] = n /\ e[1] \in S}) <= 1

MaxDepthOnTrees ==
    ( /\ pc = "done"
      /\ InitialName(text) # None
      /\ NoDuplicates(text.ir.transitions)
      /\ UniqueWalks(Edges(text.ir.transitions),
                     {InitialName(text)[1]}
                         \cup ReachFrom(Edges(text.ir.transitions), {InitialName(text)[1]})) )
        => out.vector.max_depth = ExpectedMaxDepth(text)

----------------------------------------------------------------------------
(* 4.9: the calls of count_paths, one step at a time *)

MaxPathEdges == 2
MaxChain == 23

\* A call in progress: the node it runs on, its visited set, the list the for
\* loop iterates over, the position k of the neighbour the loop is at, and
\* the total so far; `entry` before the two tests at the top, `loop` in the
\* for loop.
Frame(start, visited) ==
    [start |-> start, visited |-> visited, at |-> "entry", next |-> <<>>,
     k |-> 0, total |-> 0]

Top == arg[Len(arg)]

Node(i) == ToString(i)

\* s1 -> s2 -> ... -> sn
ChainEdges(n) == [i \in 1..(n - 1) |-> [source |-> Node(i), target |-> Node(i + 1)]]

\* The chain closed by sn -> s1.
RingEdges(n) == Append(ChainEdges(n), [source |-> Node(n), target |-> Node(1)])

\* The chain with, out of every node, a transition to itself and one back to
\* s1 before the one to the next node.
BackEdges(n) ==
    [j \in 1..(3 * (n - 1)) |->
        [source |-> Node((j + 2) \div 3),
         target |-> IF j % 3 = 1 THEN Node((j + 2) \div 3)
                    ELSE IF j % 3 = 2 THEN Node(1)
                    ELSE Node(((j + 2) \div 3) + 1)]]

LongGraphs ==
    {[transitions |-> ts, start |-> Some(Node(1)), target |-> Some(t)] :
        ts \in {ChainEdges(MaxChain), RingEdges(MaxChain), BackEdges(MaxChain)},
        t \in {Node(MaxChain), "error"}}

SmallGraphs ==
    {[transitions |-> ts, start |-> Some(n), target |-> Some(t)] :
        ts \in Strs(TransitionRecords, MaxPathEdges),
        n \in GraphNames, t \in {"b", "error"}}

InitPaths ==
    /\ pc = "start"
    /\ text \in SmallGraphs \cup LongGraphs
    /\ arg = <<>>
    /\ out = NoOut

\* count_paths(initial_state, err, {initial_state})
CallCountPaths ==
    /\ pc = "start"
    /\ pc' = "running"
    /\ arg' = <<Frame(text.start, {text.start})>>
    /\ UNCHANGED <<text, out>>

\* `return v` of the call on top: the caller adds v to its total and goes on
\* to its next neighbour; the first call returns to the extractor.
ReturnValue(v) ==
    IF Len(arg) = 1
    THEN /\ pc' = "done"
         /\ arg' = <<>>
         /\ out' = [fn |-> "count_paths", result |-> v]
    ELSE /\ pc' = pc
         /\ arg' = [SubSeq(arg, 1, Len(arg) - 1) EXCEPT
                       ![Len(arg) - 1].total = @ + v,
                       ![Len(arg) - 1].k = @ + 1]
         /\ out' = out

\* if start == target: return 1
ReturnAtTarget ==
    /\ pc = "running"
    /\ Top.at = "entry"
    /\ Top.start = text.target
    /\ ReturnValue(1)
    /\ UNCHANGED text

\* if len(visited) > limit: return 0
ReturnAtLimit ==
    /\ pc = "running"
    /\ Top.at = "entry"
    /\ Top.start # text.target
    /\ Cardinality(Top.visited) > PathLimit
    /\ ReturnValue(0)
    /\ UNCHANGED text

\* total = 0; for nxt in adjacency.get(start, []):
EnterLoop ==
    /\ pc = "running"
    /\ Top.at = "entry"
    /\ Top.start # text.target
    /\ Cardinality(Top.visited) <= PathLimit
    /\ arg' = [arg EXCEPT ![Len(arg)].at = "loop",
                           ![Len(arg)].next = Adjacent(text.transitions, Top.start),
                           ![Len(arg)].k = 1]
    /\ UNCHANGED <<pc, text, out>>

\* A neighbour that is in visited is passed over.
SkipVisited ==
    /\ pc = "running"
    /\ Top.at = "loop"
    /\ Top.k <= Len(Top.next)
    /\ ~unvisited(Top.next[Top.k], Top.visited)
    /\ arg' = [arg EXCEPT ![Len(arg)].k = @ + 1]
    /\ UNCHANGED <<pc, text, out>>

\* total += count_paths(nxt, target, visited | {nxt}, limit)
Recurse ==
    /\ pc = "running"
    /\ Top.at = "loop"
    /\ Top.k <= Len(Top.next)
    /\ unvisited(Top.next[Top.k], Top.visited)
    /\ arg' = Append(arg, Frame(Top.next[Top.k], Top.visited \cup {Top.next[Top.k]}))
    /\ UNCHANGED <<pc, text, out>>

\* return total
ReturnTotal ==
    /\ pc = "running"
    /\ Top.at = "loop"
    /\ Top.k > Len(Top.next)
    /\ ReturnValue(Top.total)
    /\ UNCHANGED text

NextPaths ==
    \/ CallCountPaths
    \/ ReturnAtTarget
    \/ ReturnAtLimit
    \/ EnterLoop
    \/ SkipVisited
    \/ Recurse
    \/ ReturnTotal

\* The interpreter goes on executing the call it is in.
SpecPaths == InitPaths /\ [][NextPaths]_vars /\ WF_vars(NextPaths)

\* The nodes of the calls in progress, the path being explored.
PathNodes == [k \in 1..Len(arg) |-> arg[k].start]

PathIsSimpleAndCapped ==
    /\ NoDuplicates(PathNodes)
    /\ Len(arg) <= PathLimit + 1
    /\ \A k \in 1..Len(arg) :
           /\ Members(SubSeq(PathNodes, 1, k)) \subseteq arg[k].visited
           /\ Cardinality(arg[k].visited) <= PathLimit + 1

\* C27: the recursive count of the paths terminates on every finite
\* transition graph, cycles and self-loops included: no state is visited
\* twice on one explored path, no explored path holds more than the cap of 20
\* visited states plus one, and the first call returns.
C27_CountPathsTerminates == [](PathIsSimpleAndCapped) /\ <>(pc = "done")

\* A path at the cap, in a graph in which visited neighbours were passed
\* over on the way.
C27_Witness ==
    /\ pc = "running"
    /\ Len(arg) = PathLimit + 1
    /\ Cardinality(Top.visited) = PathLimit + 1
    /\ \A k \in 1..(Len(arg) - 1) : arg[k].k > 1

\* On the small graphs the value the first call returns is the one the
\* recursive definition gives.
StepsAgreeWithCountPaths ==
    (pc = "done" /\ Len(text.transitions) <= MaxPathEdges) =>
        out.result = count_paths(text.transitions, text.start, text.target,
                                 {text.start}, PathLimit)

----------------------------------------------------------------------------
(* 4.9: the FSM feature extractor applied to the IR of the assemblers *)

\* The str of a run of tokens.
RECURSIVE Text(_)
Text(tokens) == IF tokens = <<>> THEN "" ELSE tokens[1] \o Text(Tail(tokens))

JsonString(tokens) == [json |-> "string", value |-> Text(tokens)]

JsonStrings(names) == [k \in 1..Len(names) |-> JsonString(names[k])]

\* {"from": ..., "to": ..., "event": ...}
JsonTransitions(transitions) ==
    [k \in 1..Len(transitions) |->
        [key \in DOMAIN transitions[k] |-> Text(transitions[k][key])]]

\* The dict of an event, its name a str.
JsonEvents(events) ==
    [k \in 1..Len(events) |-> [events[k] EXCEPT !.name = Text(@)]]

\* The record mop_text_to_ir returns for an FSM specification: the states a
\* list of str, the transitions a list of dicts under `ir`.
comparator_fsm_record(r) ==
    [r EXCEPT !.ir.states = JsonStrings(@),
              !.ir.start_state = Text(@),
              !.ir.transitions = JsonTransitions(@)]

\* The record extract_fsm_ir returns: the states and the transitions under
\* `ir.analysis`.
convert_fsm_record(r) ==
    [r EXCEPT !.ir.events = JsonEvents(@),
              !.ir.analysis.states = JsonStrings(@),
              !.ir.analysis.transitions = JsonTransitions(@)]

IsFsmRecord(r) == "category" \in DOMAIN r /\ r.category = "FSM"

\* loader._extract_vector_fsm(mop_text_to_ir(text))
CallVectorOfComparatorIr ==
    /\ pc = "start"
    /\ \E r \in {mop_text_to_ir(text)} :
          /\ IsFsmRecord(r)
          /\ \E record \in {comparator_fsm_record(r)} :
                out' = [fn |-> "FewShotLoader._extract_vector_fsm",
                        assembler |-> "comparator.mop_text_to_ir",
                        record |-> record,
                        states |-> record.ir.states,
                        transitions |-> record.ir.transitions,
                        vector |-> extract_vector_fsm(record)]
    /\ pc' = "done"
    /\ UNCHANGED <<text, arg>>

\* loader._extract_vector_fsm(extract_fsm_ir(text, spec_id, domain))
CallVectorOfConvertIr ==
    /\ pc = "start"
    /\ \E record \in {convert_fsm_record(extract_fsm_ir(text))} :
          out' = [fn |-> "FewShotLoader._extract_vector_fsm",
                  assembler |-> "fsm.extract_fsm_ir",
                  record |-> record,
                  states |-> record.ir.analysis.states,
                  transitions |-> record.ir.analysis.transitions,
                  vector |-> extract_vector_fsm(record)]
    /\ pc' = "done"
    /\ UNCHANGED <<text, arg>>

NextIrVector ==
    \/ CallVectorOfComparatorIr
    \/ CallVectorOfConvertIr

SpecIrVector == InitIr /\ [][NextIrVector]_vars

\* The targets of the transitions of the IR's graph out of a state, in the
\* order of the transitions.
GraphTargets(transitions, name) ==
    Filter([k \in 1..Len(transitions) |-> Some(transitions[k].to)],
           [k \in 1..Len(transitions) |-> transitions[k].from = name], 1)

\* C28: for every FSM IR an assembler produces, the feature extractor applied
\* to the same record reports num_states equal to the number of states of the
\* IR's graph and num_transitions equal to the number of its transitions, and
\* its adjacency of every state holds the targets of the transitions out of
\* that state.
C28_VectorCountsAssembledGraph ==
    pc = "done" =>
        /\ "raised" \notin DOMAIN out.vector
        /\ out.vector.num_states = Len(out.states)
        /\ out.vector.num_transitions = Len(out.transitions)
        /\ \A k \in 1..Len(out.states) :
              Adjacent(ListGet(out.record.ir, "transitions"), Some(out.states[k].value))
                  = GraphTargets(out.transitions, out.states[k].value)

\* On the record of mop_text_to_ir, whose states are str and never empty, the
\* extractor raises.
ComparatorRecordRaisesInExtractor ==
    (pc = "done" /\ out.assembler = "comparator.mop_text_to_ir")
        => out.vector = [raised |-> "AttributeError"]

\* On the record of extract_fsm_ir the extractor finds no states and no
\* transitions under `ir`, whatever the graph under `ir.analysis`.
ConvertRecordCountsNothing ==
    (pc = "done" /\ out.assembler = "fsm.extract_fsm_ir")
        => /\ out.vector.num_states = 0
           /\ out.vector.num_transitions = 0
           /\ out.vector.max_out_degree = 0
           /\ out.vector.max_depth = 0

\* An assembled graph with states and transitions went through the
\* extractor.
AssembledGraphSeen(assembler) ==
    /\ pc = "done"
    /\ out.assembler = assembler
    /\ Len(out.states) >= 2
    /\ Len(out.transitions) >= 2

ComparatorGraphSeen == AssembledGraphSeen("comparator.mop_text_to_ir")

ConvertGraphSeen == AssembledGraphSeen("fsm.extract_fsm_ir")

----------------------------------------------------------------------------
(* 4.6: the start state of an FSM IR *)

\* The start state of a result, None when there is none, and its states.
StartOf(o) ==
    IF o.fn = "comparator._parse_fsm_block" THEN o.start_state
    ELSE IF o.fn = "fsm.extract_fsm_block" THEN o.initial
    ELSE IF o.fn = "comparator.mop_text_to_ir" THEN Some(o.ir.start_state)
    ELSE o.ir.analysis.initial

StatesOf(o) ==
    IF o.fn \in {"comparator._parse_fsm_block", "fsm.extract_fsm_block"} THEN o.states
    ELSE IrStates(o)

HasFsmGraph(o) ==
    \/ o.fn \in {"comparator._parse_fsm_block", "fsm.extract_fsm_block", "fsm.extract_fsm_ir"}
    \/ o.fn = "comparator.mop_text_to_ir" /\ IsFsmRecord(o)

\* C29: in every FSM IR the start state, when it is not none, is one of the
\* states of that IR, for every input text, a text whose start state is
\* spelled with upper-case letters and a text without a state block included.
C29_StartStateIsAState ==
    (pc = "done" /\ HasFsmGraph(out) /\ StartOf(out) # None)
        => StartOf(out)[1] \in Members(StatesOf(out))

\* The convert parser takes its initial state from its states.
ConvertInitialIsAState ==
    (pc = "done" /\ out.fn \in {"fsm.extract_fsm_block", "fsm.extract_fsm_ir"}
        /\ StartOf(out) # None)
        => StartOf(out)[1] \in Members(StatesOf(out))

\* The comparator's start state is one of its states or the literal `start`
\* standing for a state that reads `start` in another case.
ComparatorStartIsAStateUpToCase ==
    (pc = "done" /\ HasFsmGraph(out) /\ StartOf(out) # None
        /\ out.fn \in {"comparator._parse_fsm_block", "comparator.mop_text_to_ir"})
        => \/ StartOf(out)[1] \in Members(StatesOf(out))
           \/ /\ StartOf(out)[1] = <<"start">>
              /\ \E k \in 1..Len(StatesOf(out)) : LowerName(StatesOf(out)[k]) = <<"start">>

\* Without a state block the assembler's defaults agree.
DefaultStartIsADefaultState ==
    (pc = "done" /\ out.fn = "comparator.mop_text_to_ir" /\ IsFsmRecord(out)
        /\ comparator_parse_fsm_block(comparator_strip_comments(text)).states = <<>>)
        => /\ out.ir.start_state = <<"start">>
           /\ out.ir.states = <<<<"start">>, <<"UNKNOWN_STATE">>>>

----------------------------------------------------------------------------
(* 6: the comparison of two directories of IR files *)

MaxIrFiles == 2

\* The relative paths, without the extension, of the files in a directory:
\* A.json, io/A.json and io__A.json.
IrKeys == {<<"A">>, <<"io", "A">>, <<"io__A">>}

\* What json.load makes of a file: an IR record, or an exception when the
\* text is not JSON.
EventRecord ==
    [category |-> "EVENT",
     ir |-> [type |-> "event", events |-> <<[name |-> "open", timing |-> "before"]>>,
             guard |-> "x"]]

FsmRecord(states) == [category |-> "FSM", ir |-> [type |-> "fsm", states |-> states]]

IrContents ==
    {[parses |-> TRUE, value |-> r] :
        r \in {EventRecord, FsmRecord(<<"s0", "s1">>), FsmRecord(<<"s1", "s2">>)}}
        \cup {[parses |-> FALSE]}

IrFiles == {[key |-> k, content |-> c] : k \in IrKeys, c \in IrContents}

DistinctKeys(fs) == \A i, j \in 1..Len(fs) : i # j => fs[i].key # fs[j].key

\* _index_ir_dir: what rglob("*.json") yields, each file once, in any order,
\* keyed by its relative path without the extension.
IrIndexes == {fs \in Strs(IrFiles, MaxIrFiles) : DistinctKeys(fs)}

IndexKeys(index) == {index[k].key : k \in 1..Len(index)}

\* index[key]
IndexAt(index, key) == index[CHOOSE k \in 1..Len(index) : index[k].key = key]

\* key.replace("/", "__") + ".diff.json"
RECURSIVE ReplaceSlashes(_)
ReplaceSlashes(key) ==
    IF Len(key) = 1 THEN key[1] ELSE key[1] \o "__" \o ReplaceSlashes(Tail(key))

DiffName(key) == ReplaceSlashes(key) \o ".diff.json"

\* {"id": key, "status": "missing_generated"}
MissingResult(key) == [id |-> key, status |-> "missing_generated"]

\* {"id": key, "equal": diff.is_equal, "errors": ..., "warnings": ...}
DiffResult(key, diff) ==
    [id |-> key, equal |-> is_equal(diff), errors |-> diff.errors,
     warnings |-> diff.warnings]

\* results.append(result) and the write of the per-spec diff file.
AppendCompared(st, result) ==
    [st EXCEPT !.results = Append(@, result),
               !.written = Append(@, [name |-> DiffName(result.id), content |-> result])]

\* The pass of the loop that appends nothing for a key without a generated
\* counterpart.
compare_dirs_iteration_dropping_missing(st, base, generated_index) ==
    IF base.key \notin IndexKeys(generated_index)
    THEN {st}
    ELSE IF ~base.content.parses \/ ~IndexAt(generated_index, base.key).content.parses
    THEN {[st EXCEPT !.status = "raised"]}
    ELSE {AppendCompared(st, DiffResult(base.key, diff)) :
             diff \in compare_ir(base.content.value,
                                 IndexAt(generated_index, base.key).content.value)}

\* One pass of the loop of compare_dirs over a file of the baseline: the
\* states it can leave, one for each order compare_ir can report in.
compare_dirs_iteration(st, base, generated_index) ==
    IF base.key \notin IndexKeys(generated_index)
    THEN {[st EXCEPT !.results = Append(@, MissingResult(base.key))]}
    ELSE IF ~base.content.parses \/ ~IndexAt(generated_index, base.key).content.parses
    THEN {[st EXCEPT !.status = "raised"]}
    ELSE {AppendCompared(st, DiffResult(base.key, diff)) :
             diff \in compare_ir(base.content.value,
                                 IndexAt(generated_index, base.key).content.value)}

CountWhere(results, holds(_)) == Cardinality({k \in 1..Len(results) : holds(results[k])})

IsEqualResult(r) == DictGet(r, "equal") = Some(TRUE)

HasErrors(r) == DictGet(r, "errors") \notin {None, Some(<<>>)}

IsMissingResult(r) == DictGet(r, "status") = Some("missing_generated")

\* The global summary.
summary_of(results) ==
    [total |-> Len(results),
     equal |-> CountWhere(results, IsEqualResult),
     with_errors |-> CountWhere(results, HasErrors),
     missing_generated |-> CountWhere(results, IsMissingResult)]

InitCompareDirs ==
    /\ pc = "start"
    /\ text \in [baseline : IrIndexes, generated : IrIndexes]
    /\ arg = 0
    /\ out = NoOut

BeginCompareDirs ==
    /\ pc = "start"
    /\ pc' = "loop"
    /\ out' = [fn |-> "compare_dirs", results |-> <<>>, written |-> <<>>,
               status |-> "running"]
    /\ UNCHANGED <<text, arg>>

CompareDirsIterate ==
    /\ pc = "loop"
    /\ arg < Len(text.baseline)
    /\ \E after \in compare_dirs_iteration(out, text.baseline[arg + 1], text.generated) :
          /\ out' = after
          /\ pc' = IF after.status = "raised" THEN "done" ELSE "loop"
    /\ arg' = arg + 1
    /\ UNCHANGED text

\* The summary, its file, and `return results`.
CompareDirsReturn ==
    /\ pc = "loop"
    /\ arg = Len(text.baseline)
    /\ pc' = "done"
    /\ out' = [out EXCEPT !.status = "returned",
                          !.written = Append(@, [name |-> "summary.json",
                                                 content |-> summary_of(out.results)])]
                  @@ [summary |-> summary_of(out.results)]
    /\ UNCHANGED <<text, arg>>

NextCompareDirs ==
    \/ BeginCompareDirs
    \/ CompareDirsIterate
    \/ CompareDirsReturn

SpecCompareDirs == InitCompareDirs /\ [][NextCompareDirs]_vars

\* The diff files written, in the order of the writes.
DiffWrites(written) == SubSeq(written, 1, Len(written) - 1)

\* The results of the compared pairs, in the order of the results.
ComparedResults(results) ==
    Filter(results, [k \in 1..Len(results) |-> ~IsMissingResult(results[k])], 1)

\* C30: compare_dirs returns exactly one result per baseline IR file and none
\* for a file that exists only in the generated directory; its summary
\* partitions the results, total = equal + with_errors + missing_generated; a
\* baseline file without a generated counterpart is counted only as
\* missing_generated and has no diff file written, and every compared pair is
\* counted as exactly one of equal and with_errors.
C30_OneResultPerBaselineFile ==
    (pc = "done" /\ out.status = "returned") =>
        /\ Len(out.results) = Len(text.baseline)
        /\ \A k \in 1..Len(out.results) :
              /\ out.results[k].id = text.baseline[k].key
              /\ IF text.baseline[k].key \in IndexKeys(text.generated)
                 THEN /\ ~IsMissingResult(out.results[k])
                      /\ IsEqualResult(out.results[k]) # HasErrors(out.results[k])
                 ELSE /\ IsMissingResult(out.results[k])
                      /\ ~IsEqualResult(out.results[k])
                      /\ ~HasErrors(out.results[k])
        /\ out.summary.total = Len(text.baseline)
        /\ out.summary.total = out.summary.equal + out.summary.with_errors
                                   + out.summary.missing_generated
        /\ out.summary.missing_generated
               = Cardinality({k \in 1..Len(text.baseline) :
                                 text.baseline[k].key \notin IndexKeys(text.generated)})
        /\ DiffWrites(out.written)
               = [k \in 1..Len(ComparedResults(out.results)) |->
                     [name |-> DiffName(ComparedResults(out.results)[k].id),
                      content |-> ComparedResults(out.results)[k]]]

\* A call that returned with a result for a missing file and one for a pair
\* with errors, and with a file that exists only in the generated directory.
C30_Witness ==
    /\ pc = "done"
    /\ out.status = "returned"
    /\ out.summary.missing_generated = 1
    /\ out.summary.with_errors = 1
    /\ IndexKeys(text.generated) \ IndexKeys(text.baseline) # {}

\* A call that returned with a pair that compared equal.
EqualPairSeen ==
    /\ pc = "done"
    /\ out.status = "returned"
    /\ out.summary.equal >= 1

\* Two keys that differ only in `/` against `__` share their diff file.
DiffFilesShared ==
    /\ pc = "done"
    /\ out.status = "returned"
    /\ Len(out.written) = 3
    /\ out.written[1].name = out.written[2].name

====
